---- MODULE Spec2Model ----
(***************************************************************************)
(* ProxyCall: number-pool allocation (TwilioPools sheet), OTP confirmation *)
(* workflow (CONFIRMATION_PENDING sheet) and call / SMS routing (Clients   *)
(* sheet).  The sheets are row stores without locks or transactions: every *)
(* gspread call (get_all_values, get, update, update_cell, append_row) is  *)
(* one atomic step and nothing larger is.                                  *)
(*                                                                         *)
(* Spec      - the pool operations cell by cell, interleaved               *)
(* SpecSeq   - the confirmation workflow, one handler per step             *)
(* SpecRoute - call and SMS routing, one inbound event per step            *)
(*                                                                         *)
(* Cell values are strings; a timestamp cell is <<>> when empty and <<t>>  *)
(* when it holds the ISO time t (minutes).  Text the program takes apart   *)
(* or converts (phone numbers, OTP codes, message bodies, client ids) is a *)
(* tuple of one-character strings.  All other text is kept in the          *)
(* canonical form the program itself writes (trimmed, country upper case,  *)
(* status and type lower case, mail lower case), so strip()/upper()/       *)
(* lower() on it change nothing.  Sheet calls succeed unless an action     *)
(* takes the outcome of a call as an input.                                *)
(***************************************************************************)
EXTENDS Integers, Sequences, FiniteSets, TLC

VARIABLES
    pool,       \* TwilioPools data rows (sheet row = index + 1, row 1 = header)
    now,        \* datetime.utcnow(), in minutes
    pc,         \* Spec: where each concurrent caller stands in its operation
    loc,        \* Spec: the local variables of the operation each caller runs
    uuids,      \* Spec: how many uuid4() values each caller has drawn
    ops,        \* Spec: operations started so far
    released,   \* Spec: tokens some release_reservation_by_token has reset rows of
    pending,    \* CONFIRMATION_PENDING data rows (sheet row = index + 1)
    clients,    \* Clients rows from row 2 on (sheet row = index + 1, row 2 = formulas)
    last        \* SpecSeq, SpecRoute: the last request handled and its outcome

vars == <<pool, now, pc, loc, uuids, ops, released, pending, clients, last>>

----------------------------------------------------------------------------
(* Bounds of the model *)

\* reserve_first_available(..., max_tries=10): attempts per Reserve call; the
\* model runs the same loop with fewer attempts.
max_tries == 3
\* operations started in one behaviour of Spec
MaxOps == 2
\* the clock of Spec advances by TickStep up to MaxNow
TickStep == 5
MaxNow == 15

\* reserve_first_available(..., stale_after_minutes=10)
stale_after_minutes == 10

Procs == {"p1", "p2"}
\* the client / pending request each caller acts for
ClientIdOf(p) == IF p = "p1" THEN "1" ELSE "2"
PendingIdOf(p) == IF p = "p1" THEN "P1" ELSE "P2"
ClientNameOf(p) == IF p = "p1" THEN "Alice" ELSE "Bob"

NoTime == <<>>
Iso(t) == <<t>>

----------------------------------------------------------------------------
(* TwilioPools *)

PoolRow(phone, ntype) ==
    [country_iso |-> "FR", phone_number |-> phone, status |-> "available",
     date_attribution |-> NoTime, attribution_to_client_name |-> "",
     number_type |-> ntype, reserved_token |-> "", reserved_at |-> NoTime,
     reserved_by_client_id |-> ""]

\* two purchased numbers of the same country and type
ProxyA == <<"+","3","3","9","0","0","0","0","0","0","0","1">>
ProxyB == <<"+","3","3","9","0","0","0","0","0","0","0","2">>
\* a number that is in no pool and that no client owns
ProxyU == <<"+","3","3","9","0","0","0","0","0","0","0","9">>
Proxies == {ProxyA, ProxyB, ProxyU}
PoolInit == << PoolRow(ProxyA, "mobile"), PoolRow(ProxyB, "mobile") >>

\* enumerate(data_rows, start=2)
RowIndexes(values) == {i + 1 : i \in 1..Len(values)}
RowAt(values, row_index) == values[row_index - 1]

\* sheet.update("C{row}:C{row}", [[status]])
update_C(values, row_index, status) ==
    [values EXCEPT ![row_index - 1].status = status]

\* sheet.update("G{row}:G{row}", [[name]])
update_G(values, row_index, name) ==
    [values EXCEPT ![row_index - 1].attribution_to_client_name = name]

\* sheet.update("F{row}:G{row}", [[date_attr, attr_name]])
update_FG(values, row_index, date_attr, name) ==
    [values EXCEPT ![row_index - 1].date_attribution = date_attr,
                   ![row_index - 1].attribution_to_client_name = name]

\* sheet.update("I{row}:K{row}", [[token, reserved_at, reserved_by]])
update_IJK(values, row_index, token, at, by) ==
    [values EXCEPT ![row_index - 1].reserved_token = token,
                   ![row_index - 1].reserved_at = at,
                   ![row_index - 1].reserved_by_client_id = by]

\* the flipped comparison: a young reservation counts as stale, an old one not
is_stale_reserved_flipped(status, reserved_at, t) ==
    IF status # "reserved" THEN FALSE
    ELSE IF reserved_at = NoTime THEN TRUE
    ELSE reserved_at[1] > t - stale_after_minutes

\* a staleness test that never reclaims a reserved row without reserved_at
is_stale_reserved_stamped(status, reserved_at, t) ==
    IF status # "reserved" THEN FALSE
    ELSE IF reserved_at = NoTime THEN FALSE
    ELSE reserved_at[1] < t - stale_after_minutes

\* _is_stale_reserved(status, reserved_at), t = datetime.utcnow()
is_stale_reserved(status, reserved_at, t) ==
    IF status # "reserved" THEN FALSE
    ELSE IF reserved_at = NoTime THEN TRUE
    ELSE reserved_at[1] < t - stale_after_minutes

\* the filter of the scan loop: the three `continue`s
IsCandidate(row, country, requested, t) ==
    /\ row.country_iso = country
    /\ row.number_type = requested
    /\ (row.status = "available" \/ is_stale_reserved(row.status, row.reserved_at, t))

\* the row the scan loop stops at: the first candidate in sheet order, 0 if none
FirstCandidate(values, country, requested, t) ==
    LET C == {r \in RowIndexes(values) : IsCandidate(RowAt(values, r), country, requested, t)}
    IN  IF C = {} THEN 0 ELSE CHOOSE r \in C : \A s \in C : r <= s

\* str(uuid.uuid4()): never the same value twice
uuid4(p, n) == "uuid-" \o p \o "-" \o ToString(n)

\* a filter that looks at the status only
RECURSIVE ReleaseRows_anytoken(_, _, _)
ReleaseRows_anytoken(values, token, i) ==
    IF i > Len(values) THEN <<>>
    ELSE (IF values[i].status = "reserved" THEN <<i + 1>> ELSE <<>>)
         \o ReleaseRows_anytoken(values, token, i + 1)

\* the rows release_reservation_by_token resets, in sheet order
RECURSIVE ReleaseRows(_, _, _)
ReleaseRows(values, token, i) ==
    IF i > Len(values) THEN <<>>
    ELSE (IF values[i].status = "reserved" /\ values[i].reserved_token = token
          THEN <<i + 1>> ELSE <<>>) \o ReleaseRows(values, token, i + 1)

\* a cell matching anything when it is empty
TokenMatches_emptyok(current_token, reserved_token) ==
    current_token = reserved_token \/ current_token = ""

\* finalize_assignment_keep_friendly: the anti-conflict comparison
TokenMatches(current_token, reserved_token) ==
    current_token = reserved_token

----------------------------------------------------------------------------
(* Spec: the pool operations, one sheet call per step *)

IdleLoc ==
    [op |-> "idle", arg |-> "", name |-> "", attempt |-> 0, row_index |-> 0,
     status |-> "", reserved_at_existing |-> NoTime, token |-> "", now |-> 0,
     current_token |-> "", rows |-> <<>>, count |-> 0,
     result |-> "none", phone |-> <<>>]

\* the request handled last: its kind, its inputs, its outcome (ret), the
\* number a call was connected or a message relayed to (to), the rows an
\* expiry marked, the rows a release counted, the request before it, and
\* for each proxy the origin of the last third-party event connected or
\* relayed to its client (routed) and of the one before that (routed_before),
\* the pool row and the attribution name a pool operation was given, the
\* sheet.update call that raised (fail, 0 for none), and the exception the
\* handler ended with (error)
NoRequest ==
    [op |-> "none", pending_id |-> "", number_type |-> "", proxy |-> <<>>,
     origin |-> <<>>, body |-> <<>>, hours |-> 0, token |-> "", ret |-> "",
     to |-> <<>>, expired |-> {}, count |-> 0, prev_op |-> "none", prev_token |-> "",
     prev_count |-> 0, routed |-> [p \in Proxies |-> <<>>],
     routed_before |-> [p \in Proxies |-> <<>>],
     row |-> 0, fail |-> 0, name |-> "", error |-> "",
     id |-> "", cells |-> {}, cleared |-> {}, payload |-> <<>>,
     added |-> <<>>, bought |-> <<>>, outcomes |-> <<>>]

Init ==
    /\ pool = PoolInit
    /\ now = 0
    /\ pc = [p \in Procs |-> "idle"]
    /\ loc = [p \in Procs |-> IdleLoc]
    /\ uuids = [p \in Procs |-> 0]
    /\ ops = 0
    /\ released = {}
    /\ pending = <<>>
    /\ clients = <<>>
    /\ last = NoRequest

CanStart(p) == pc[p] \in {"idle", "done"} /\ ops < MaxOps

\* TwilioClient.assign_number_from_pool(client_id, country, attribution_to_client_name)
StartAssign(p) ==
    /\ CanStart(p)
    /\ pc' = [pc EXCEPT ![p] = "scan"]
    /\ loc' = [loc EXCEPT ![p] = [IdleLoc EXCEPT !.op = "assign", !.arg = ClientIdOf(p),
                                                  !.name = ClientNameOf(p)]]
    /\ ops' = ops + 1
    /\ UNCHANGED <<pending, clients, last, pool, now, uuids, released>>

\* PoolsRepository.reserve_first_available_pending(pending_id, attribution_to_client_name)
StartReservePending(p) ==
    /\ CanStart(p)
    /\ pc' = [pc EXCEPT ![p] = "scan"]
    /\ loc' = [loc EXCEPT ![p] = [IdleLoc EXCEPT !.op = "reserve_pending", !.arg = PendingIdOf(p),
                                                  !.name = ClientNameOf(p)]]
    /\ ops' = ops + 1
    /\ UNCHANGED <<pending, clients, last, pool, now, uuids, released>>

\* the tokens a caller may pass to release_reservation_by_token
ReleaseInputs == {"", "unknown"} \cup {pool[i].reserved_token : i \in 1..Len(pool)}

\* PoolsRepository.release_reservation_by_token(reserved_token): `if not token: return 0`,
\* else get_all_values() and the rows to reset
StartRelease(p) ==
    /\ CanStart(p)
    /\ \E t \in ReleaseInputs :
         LET rows == IF t = "" THEN <<>> ELSE ReleaseRows(pool, t, 1) IN
         /\ loc' = [loc EXCEPT ![p] = [IdleLoc EXCEPT !.op = "release", !.arg = t, !.rows = rows,
                                        !.result = IF rows = <<>> THEN "released" ELSE "none"]]
         /\ pc' = [pc EXCEPT ![p] = IF rows = <<>> THEN "done" ELSE "rel_status"]
    /\ ops' = ops + 1
    /\ UNCHANGED <<pending, clients, last, pool, now, uuids, released>>

\* a loop that runs its body once more than range(max_tries) does
out_of_tries_late(attempt) == attempt > max_tries

\* for attempt in range(max_tries): the loop is over once attempt reaches max_tries
out_of_tries(attempt) == attempt >= max_tries

\* for attempt in range(max_tries): values = sheet.get_all_values(); the scan loop up
\* to its first candidate; token = str(uuid.uuid4()) (client path) or pending_id
Scan(p) ==
    /\ pc[p] = "scan"
    /\ IF out_of_tries(loc[p].attempt)
       THEN \* the for loop is over: return None
            /\ pc' = [pc EXCEPT ![p] = "done"]
            /\ loc' = [loc EXCEPT ![p].result = "exhausted"]
            /\ UNCHANGED uuids
       ELSE LET r == FirstCandidate(pool, "FR", "mobile", now) IN
            IF r = 0
            THEN \* no candidate in this read: next attempt
                 /\ loc' = [loc EXCEPT ![p].attempt = @ + 1]
                 /\ UNCHANGED <<pc, uuids>>
            ELSE /\ loc' = [loc EXCEPT ![p].row_index = r,
                                       ![p].status = RowAt(pool, r).status,
                                       ![p].reserved_at_existing = RowAt(pool, r).reserved_at,
                                       ![p].phone = RowAt(pool, r).phone_number,
                                       ![p].now = now,
                                       ![p].token = IF loc[p].op = "assign"
                                                    THEN uuid4(p, uuids[p] + 1)
                                                    ELSE loc[p].arg]
                 /\ uuids' = [uuids EXCEPT ![p] = IF loc[p].op = "assign" THEN @ + 1 ELSE @]
                 /\ pc' = [pc EXCEPT ![p] = "w_status"]
    /\ UNCHANGED <<pending, clients, last, pool, now, ops, released>>

\* sheet.update("C{row}", "reserved")
WriteStatus(p) ==
    /\ pc[p] = "w_status"
    /\ pool' = update_C(pool, loc[p].row_index, "reserved")
    /\ pc' = [pc EXCEPT ![p] = IF loc[p].op = "reserve_pending" THEN "w_attr" ELSE "w_trace"]
    /\ UNCHANGED <<pending, clients, last, now, loc, uuids, ops, released>>

\* pending path only: sheet.update("G{row}", attribution_to_client_name)
WriteAttr(p) ==
    /\ pc[p] = "w_attr"
    /\ pool' = update_G(pool, loc[p].row_index, loc[p].name)
    /\ pc' = [pc EXCEPT ![p] = "w_trace"]
    /\ UNCHANGED <<pending, clients, last, now, loc, uuids, ops, released>>

\* sheet.update("I{row}:K{row}", [token, now, client_id]) (pending path: [pending_id, now, ""])
WriteTrace(p) ==
    /\ pc[p] = "w_trace"
    /\ pool' = update_IJK(pool, loc[p].row_index, loc[p].token, Iso(loc[p].now),
                          IF loc[p].op = "assign" THEN loc[p].arg ELSE "")
    /\ pc' = [pc EXCEPT ![p] = "verify"]
    /\ UNCHANGED <<pending, clients, last, now, loc, uuids, ops, released>>

\* check = sheet.get("I{row}"); equal: return the reservation; else break (next attempt)
Verify(p) ==
    /\ pc[p] = "verify"
    /\ LET current_token == RowAt(pool, loc[p].row_index).reserved_token IN
       IF current_token = loc[p].token
       THEN /\ loc' = [loc EXCEPT ![p].current_token = current_token,
                                  ![p].result = "reserved"]
            /\ pc' = [pc EXCEPT ![p] = IF loc[p].op = "assign" THEN "fin_check" ELSE "done"]
       ELSE /\ loc' = [loc EXCEPT ![p].current_token = current_token,
                                  ![p].attempt = @ + 1,
                                  ![p].row_index = 0, ![p].phone = <<>>, ![p].token = "",
                                  ![p].status = "", ![p].reserved_at_existing = NoTime]
            /\ pc' = [pc EXCEPT ![p] = "scan"]
    /\ UNCHANGED <<pending, clients, last, pool, now, uuids, ops, released>>

\* finalize_assignment_keep_friendly: check = sheet.get("I{row}"); mismatch: return
\* False, and assign_number_from_pool raises the conflict
FinalizeCheck(p) ==
    /\ pc[p] = "fin_check"
    /\ LET current_token == RowAt(pool, loc[p].row_index).reserved_token IN
       IF TokenMatches(current_token, loc[p].token)
       THEN /\ loc' = [loc EXCEPT ![p].current_token = current_token]
            /\ pc' = [pc EXCEPT ![p] = "fin_status"]
       ELSE /\ loc' = [loc EXCEPT ![p].current_token = current_token, ![p].result = "conflict"]
            /\ pc' = [pc EXCEPT ![p] = "done"]
    /\ UNCHANGED <<pending, clients, last, pool, now, uuids, ops, released>>

\* sheet.update("C{row}", "assigned")
FinalizeStatus(p) ==
    /\ pc[p] = "fin_status"
    /\ pool' = update_C(pool, loc[p].row_index, "assigned")
    /\ pc' = [pc EXCEPT ![p] = "fin_attr"]
    /\ UNCHANGED <<pending, clients, last, now, loc, uuids, ops, released>>

\* sheet.update("F{row}:G{row}", [date_attribution or utcnow(), attribution_to_client_name])
FinalizeAttr(p) ==
    /\ pc[p] = "fin_attr"
    /\ pool' = update_FG(pool, loc[p].row_index, Iso(now), loc[p].name)
    /\ pc' = [pc EXCEPT ![p] = "fin_trace"]
    /\ UNCHANGED <<pending, clients, last, now, loc, uuids, ops, released>>

\* sheet.update("I{row}:K{row}", [reserved_token, reserved_at, client_id]); return True,
\* and assign_number_from_pool returns the phone
FinalizeTrace(p) ==
    /\ pc[p] = "fin_trace"
    /\ pool' = update_IJK(pool, loc[p].row_index, loc[p].token, Iso(loc[p].now), loc[p].arg)
    /\ pc' = [pc EXCEPT ![p] = "done"]
    /\ loc' = [loc EXCEPT ![p].result = "phone"]
    /\ UNCHANGED <<pending, clients, last, now, uuids, ops, released>>

\* release: sheet.update("C{row}", "available") of the next row to reset
ReleaseStatus(p) ==
    /\ pc[p] = "rel_status"
    /\ pool' = update_C(pool, Head(loc[p].rows), "available")
    /\ pc' = [pc EXCEPT ![p] = "rel_trace"]
    /\ released' = released \cup {loc[p].arg}
    /\ UNCHANGED <<pending, clients, last, now, loc, uuids, ops>>

\* release: sheet.update("I{row}:K{row}", ["", "", ""])
ReleaseTrace(p) ==
    /\ pc[p] = "rel_trace"
    /\ pool' = update_IJK(pool, Head(loc[p].rows), "", NoTime, "")
    /\ pc' = [pc EXCEPT ![p] = "rel_attr"]
    /\ UNCHANGED <<pending, clients, last, now, loc, uuids, ops, released>>

\* release: sheet.update("G{row}", ""); count += 1; next row, or return count
ReleaseAttr(p) ==
    /\ pc[p] = "rel_attr"
    /\ pool' = update_G(pool, Head(loc[p].rows), "")
    /\ loc' = [loc EXCEPT ![p].rows = Tail(@), ![p].count = @ + 1,
                          ![p].result = IF Tail(loc[p].rows) = <<>> THEN "released" ELSE "none"]
    /\ pc' = [pc EXCEPT ![p] = IF Tail(loc[p].rows) = <<>> THEN "done" ELSE "rel_status"]
    /\ UNCHANGED <<pending, clients, last, now, uuids, ops, released>>

\* time passes
Tick ==
    /\ now + TickStep <= MaxNow
    /\ now' = now + TickStep
    /\ UNCHANGED <<pending, clients, last, pool, pc, loc, uuids, ops, released>>

Next ==
    \/ \E p \in Procs : StartAssign(p)
    \/ \E p \in Procs : StartReservePending(p)
    \/ \E p \in Procs : StartRelease(p)
    \/ \E p \in Procs : Scan(p)
    \/ \E p \in Procs : WriteStatus(p)
    \/ \E p \in Procs : WriteAttr(p)
    \/ \E p \in Procs : WriteTrace(p)
    \/ \E p \in Procs : Verify(p)
    \/ \E p \in Procs : FinalizeCheck(p)
    \/ \E p \in Procs : FinalizeStatus(p)
    \/ \E p \in Procs : FinalizeAttr(p)
    \/ \E p \in Procs : FinalizeTrace(p)
    \/ \E p \in Procs : ReleaseStatus(p)
    \/ \E p \in Procs : ReleaseTrace(p)
    \/ \E p \in Procs : ReleaseAttr(p)
    \/ Tick

Spec == Init /\ [][Next]_vars

\* SpecFair: the same operations on a pool of one number, every caller that
\* has started an operation going on to its next sheet call
PoolOneInit == << PoolRow(ProxyA, "mobile") >>

InitFair ==
    /\ pool = PoolOneInit
    /\ now = 0
    /\ pc = [p \in Procs |-> "idle"]
    /\ loc = [p \in Procs |-> IdleLoc]
    /\ uuids = [p \in Procs |-> 0]
    /\ ops = 0
    /\ released = {}
    /\ pending = <<>>
    /\ clients = <<>>
    /\ last = NoRequest

\* the sheet calls of the operation p has started
Proceed(p) ==
    \/ Scan(p) \/ WriteStatus(p) \/ WriteAttr(p) \/ WriteTrace(p) \/ Verify(p)
    \/ FinalizeCheck(p) \/ FinalizeStatus(p) \/ FinalizeAttr(p) \/ FinalizeTrace(p)
    \/ ReleaseStatus(p) \/ ReleaseTrace(p) \/ ReleaseAttr(p)

SpecFair == InitFair /\ [][Next]_vars /\ \A p \in Procs : WF_vars(Proceed(p))

----------------------------------------------------------------------------
(* Text: what the program does to the characters of a cell or an input *)

DigitChars == <<"0", "1", "2", "3", "4", "5", "6", "7", "8", "9">>
IsDigit(c) == \E d \in 1..10 : DigitChars[d] = c
DigitVal(c) == (CHOOSE d \in 1..10 : DigitChars[d] = c) - 1
\* \w of the re module, on the characters the model uses
IsWordChar(c) == IsDigit(c) \/ c \in {"a", "b", "c", "d", "e", "o", "_"}

startswith(s, prefix) ==
    Len(prefix) <= Len(s) /\ SubSeq(s, 1, Len(prefix)) = prefix

\* s.replace(" ", "")
RECURSIVE remove_spaces(_)
remove_spaces(s) ==
    IF s = <<>> THEN <<>>
    ELSE (IF Head(s) = " " THEN <<>> ELSE <<Head(s)>>) \o remove_spaces(Tail(s))

\* s.replace("+", "")
RECURSIVE remove_plus(_)
remove_plus(s) ==
    IF s = <<>> THEN <<>>
    ELSE (IF Head(s) = "+" THEN <<>> ELSE <<Head(s)>>) \o remove_plus(Tail(s))

\* s.strip(), for the one whitespace character of the model
RECURSIVE lstrip(_)
lstrip(s) == IF s # <<>> /\ Head(s) = " " THEN lstrip(Tail(s)) ELSE s
RECURSIVE rstrip(_)
rstrip(s) == IF s # <<>> /\ s[Len(s)] = " " THEN rstrip(SubSeq(s, 1, Len(s) - 1)) ELSE s
strip(s) == rstrip(lstrip(s))

\* re.sub(r"\D+", "", s)
RECURSIVE only_digits(_)
only_digits(s) ==
    IF s = <<>> THEN <<>>
    ELSE (IF IsDigit(Head(s)) THEN <<Head(s)>> ELSE <<>>) \o only_digits(Tail(s))

AllDigits(s) == \A i \in 1..Len(s) : IsDigit(s[i])

\* the decimal digits of int(s) without its leading zeros
RECURSIVE strip_zeros(_)
strip_zeros(s) == IF Len(s) > 1 /\ Head(s) = "0" THEN strip_zeros(Tail(s)) ELSE s

\* gspread's numericise, applied by get_all_records() to every cell, followed
\* by the str() the callers apply to the value: a cell that int() accepts
\* ("+33600000001", "007") comes back as the digits of that integer.
numericise(value) ==
    LET body == IF value # <<>> /\ Head(value) = "+" THEN Tail(value) ELSE value
    IN  IF body # <<>> /\ AllDigits(body) THEN strip_zeros(body) ELSE value

\* client ids the model can parse and print
MaxClientId == 9

\* int(s) of a client_id cell: the number whose decimal form the cell holds,
\* -1 when int() raises (the empty cell of the formula row)
int(s) ==
    IF \E n \in 0..MaxClientId : ToString(n) = s
    THEN CHOOSE n \in 0..MaxClientId : ToString(n) = s
    ELSE -1

\* str(n) of a client id
str(n) == ToString(n)

\* _e164(num) of confirmation_service: str().strip().replace(" ", ""), "+" in front
e164(num) ==
    LET s == remove_spaces(strip(num))
    IN  IF startswith(s, <<"+">>) THEN s ELSE <<"+">> \o s

\* _norm_cmp(num) of confirmation_pending_repository
norm_cmp(num) ==
    LET s == remove_spaces(strip(num))
    IN  IF startswith(s, <<"+">>) THEN Tail(s) ELSE s

\* x if x.startswith("+") else "+" + x
plus_prefixed(x) == IF startswith(x, <<"+">>) THEN x ELSE <<"+">> \o x

\* OTP_RE = \b(\d{4,8})\b at position i with length k: k digits, a word
\* boundary before the first and after the last
otp_match_at(s, i, k) ==
    /\ i + k - 1 <= Len(s)
    /\ \A j \in i..(i + k - 1) : IsDigit(s[j])
    /\ (i = 1 \/ ~IsWordChar(s[i - 1]))
    /\ (i + k - 1 = Len(s) \/ ~IsWordChar(s[i + k]))

\* ConfirmationPendingRepository.extract_otp / MessageRoutingService._extract_otp:
\* the first match of OTP_RE, else every digit of the body
extract_otp(body) ==
    LET body_clean == strip(body)
        M == {m \in (1..Len(body_clean)) \X (4..8) : otp_match_at(body_clean, m[1], m[2])}
    IN  IF M # {}
        THEN LET m == CHOOSE x \in M : \A y \in M : x[1] <= y[1]
             IN  SubSeq(body_clean, m[1], m[1] + m[2] - 1)
        ELSE only_digits(body_clean)

\* the values generate_otp(6) draws from: six digits, the first never 0
OtpCodes == { <<"1","2","3","4","5","6">>, <<"9","0","0","0","0","7">> }

----------------------------------------------------------------------------
(* The pool operations run to completion (no other writer in between) *)

\* a reservation handed to the caller and not kept in the sheet
reserve_pending_unrecorded(values, country, requested, pending_id, name, t) ==
    [row_index |-> FirstCandidate(values, country, requested, t), values |-> values]

\* reserve_first_available_pending without a concurrent writer: the scan, the
\* three writes, and a re-read that finds the token just written
reserve_first_available_pending(values, country, requested, pending_id, name, t) ==
    LET r == FirstCandidate(values, country, requested, t)
    IN  IF r = 0
        THEN [row_index |-> 0, values |-> values]
        ELSE [row_index |-> r,
              values |-> update_IJK(update_G(update_C(values, r, "reserved"), r, name),
                                    r, pending_id, Iso(t), "")]

\* list_available(country, number_type)
list_available(values, country, nt) ==
    {r \in RowIndexes(values) :
        /\ RowAt(values, r).country_iso = country
        /\ RowAt(values, r).status = "available"
        /\ RowAt(values, r).number_type = nt}

\* _reserve_pending_with_fallback: the requested type, then the other type
\* when list_available shows a number of it
reserve_pending_with_fallback(values, country, requested, pending_id, name, t) ==
    LET first == reserve_first_available_pending(values, country, requested, pending_id, name, t)
        fallback_type == IF requested = "mobile" THEN "local" ELSE "mobile"
    IN  IF first.row_index # 0 THEN first
        ELSE IF list_available(values, country, fallback_type) # {}
             THEN reserve_first_available_pending(values, country, fallback_type, pending_id, name, t)
             ELSE first

\* the writes release_reservation_by_token makes for the rows it selected
RECURSIVE release_rows(_, _)
release_rows(values, rows) ==
    IF rows = <<>> THEN values
    ELSE release_rows(update_G(update_IJK(update_C(values, Head(rows), "available"),
                                          Head(rows), "", NoTime, ""),
                               Head(rows), ""),
                      Tail(rows))

\* release_reservation_by_token without a concurrent writer
release_reservation_by_token(values, reserved_token) ==
    IF reserved_token = ""
    THEN [count |-> 0, values |-> values]
    ELSE LET rows == ReleaseRows(values, reserved_token, 1)
         IN  [count |-> Len(rows), values |-> release_rows(values, rows)]

----------------------------------------------------------------------------
(* CONFIRMATION_PENDING *)

PendingRow(pending_id, name, mail, phone, created_at) ==
    [pending_id |-> pending_id, client_name |-> name, client_mail |-> mail,
     client_real_phone |-> phone, proxy_number |-> <<>>, otp |-> <<>>,
     status |-> "", created_at |-> created_at, verified_at |-> NoTime]

PhoneAlice == <<"+","3","3","6","0","0","0","0","0","0","0","1">>
PhoneBob   == <<"+","3","3","6","0","0","0","0","0","0","0","3">>

\* the rows written upstream, before create_confirmation is called for them:
\* one without created_at, one already stamped
PendingInit ==
    << PendingRow("P1", "Alice", "alice@x.fr", PhoneAlice, NoTime),
       PendingRow("P2", "Bob", "bob@x.fr", PhoneBob, Iso(0)) >>

\* get_all_records() of the sheet: every cell numericised
pending_records(values) ==
    [i \in 1..Len(values) |->
        [values[i] EXCEPT !.client_real_phone = numericise(@),
                          !.proxy_number = numericise(@),
                          !.otp = numericise(@)]]

get_by_pending_id_first(values, pending_id) == IF values = <<>> THEN 0 ELSE 2

\* get_by_pending_id: the sheet row of the first record with this id, 0 for None
get_by_pending_id(values, pending_id) ==
    LET H == {i \in 1..Len(values) : values[i].pending_id = pending_id}
    IN  IF pending_id = "" \/ H = {} THEN 0
        ELSE (CHOOSE i \in H : \A j \in H : i <= j) + 1

\* set_proxy_and_otp on the row found: proxy_number, otp, status, and
\* created_at only when the cell is empty
set_proxy_and_otp(values, row, proxy_number, otp, t) ==
    [values EXCEPT ![row - 1].proxy_number = proxy_number,
                   ![row - 1].otp = otp,
                   ![row - 1].status = "PENDING",
                   ![row - 1].created_at = IF @ = NoTime THEN Iso(t) ELSE @]

\* find_pending_by_proxy_and_phone: the first PENDING record whose proxy and
\* phone equal the arguments once _norm_cmp has been applied to both sides
\* a lookup that finds no row
find_pending_none(values, proxy_number, client_phone) == 0

find_pending_by_proxy_and_phone(values, proxy_number, client_phone) ==
    LET records == pending_records(values)
        H == {i \in 1..Len(records) :
                /\ records[i].status = "PENDING"
                /\ norm_cmp(records[i].proxy_number) = norm_cmp(proxy_number)
                /\ norm_cmp(records[i].client_real_phone) = norm_cmp(client_phone)}
    IN  IF H = {} THEN 0 ELSE (CHOOSE i \in H : \A j \in H : i <= j) + 1

mark_verified(values, row, t) ==
    [values EXCEPT ![row - 1].status = "VERIFIED", ![row - 1].verified_at = Iso(t)]

mark_promoted(values, row) == [values EXCEPT ![row - 1].status = "PROMOTED"]

\* mark_updated(row, details): the model keeps the status without the details
mark_updated(values, row) == [values EXCEPT ![row - 1].status = "UPDATED"]

\* timedelta(hours=hours), in the minutes of the clock
MinutesPerHour == 60

\* the comparison of expire_older_than that keeps a row: created_dt > cutoff
younger_than_cutoff_flipped(created, t, hours) == created < t - hours * MinutesPerHour

younger_than_cutoff(created, t, hours) == created > t - hours * MinutesPerHour

\* expire_older_than: the rows it marks, in sheet order.  write_ok is the set
\* of rows whose status write succeeds; a row whose write fails is skipped.
expired_rows(values, hours, t, write_ok) ==
    {r \in RowIndexes(values) :
        /\ RowAt(values, r).status = "PENDING"
        /\ RowAt(values, r).created_at # NoTime
        /\ ~younger_than_cutoff(RowAt(values, r).created_at[1], t, hours)
        /\ r \in write_ok}

expire_older_than(values, hours, t, write_ok) ==
    LET E == expired_rows(values, hours, t, write_ok)
    IN  [expired |-> E,
         values |-> [i \in 1..Len(values) |->
                        IF (i + 1) \in E THEN [values[i] EXCEPT !.status = "EXPIRED"]
                        ELSE values[i]]]

----------------------------------------------------------------------------
(* Clients *)

\* fg_typed tells what columns F and G of the row hold: TRUE for values
\* typed into the cells (occupées par un vieux run), which a clear removes,
\* FALSE for what the ARRAYFORMULA of row 2 spills into them, which a clear
\* leaves in place
ClientRow(id, name, mail, phone, proxy, cc, last_caller) ==
    [client_id |-> id, client_name |-> name, client_mail |-> mail,
     client_real_phone |-> phone, client_proxy_number |-> proxy,
     client_iso_residency |-> <<>>, client_country_code |-> cc,
     client_last_caller |-> last_caller, fg_typed |-> FALSE]

\* row 1 of the sheet, column A first
ClientHeaders ==
    << "client_id", "client_name", "client_mail", "client_real_phone", "client_proxy_number", "client_iso_residency", "client_country_code", "client_last_caller" >>

\* headers.index(h) + 1
header_col(h) == CHOOSE i \in 1..Len(ClientHeaders) : ClientHeaders[i] = h

\* the first of the columns client_iso_residency and client_country_code
first_protected_col ==
    LET P == {header_col(h) : h \in {"client_iso_residency", "client_country_code"}}
    IN  CHOOSE c \in P : \A d \in P : c <= d

\* the columns F and G, which batch_clear names by their letters
ClearedCols == {6, 7}

\* batch_clear F{row}:G{row} of the row at index i of values
batch_clear_FG(values, i) ==
    IF values[i].fg_typed
    THEN [values EXCEPT ![i].client_iso_residency = <<>>,
                        ![i].client_country_code = <<>>, ![i].fg_typed = FALSE]
    ELSE values

\* row 2 of the sheet: it holds the formulas and no client
FormulaRow == ClientRow("", "", "", <<>>, <<>>, <<>>, <<>>)

\* ligne 2 réservée aux formules: the first row that holds a client
DATA_START_ROW == 3

\* get_all_records() of the sheet: every cell numericised (a client_id cell
\* holds the decimal form of an integer, which numericise and str() give back)
client_records(values) ==
    [i \in 1..Len(values) |->
        [values[i] EXCEPT !.client_real_phone = numericise(@),
                          !.client_proxy_number = numericise(@),
                          !.client_country_code = numericise(@),
                          !.client_last_caller = numericise(@)]]

\* x.strip().replace(" ", "").replace("+", "")
proxy_norm(x) == remove_plus(remove_spaces(strip(x)))

\* a lookup that answers with the first client that has a proxy at all
get_by_proxy_number_any(values, proxy_number) ==
    LET records == client_records(values)
        H == {i \in 1..Len(records) : proxy_norm(records[i].client_proxy_number) # <<>>}
    IN  IF H = {} THEN 0 ELSE CHOOSE i \in H : \A j \in H : i <= j

\* get_by_proxy_number: the index in records of the first client whose proxy
\* equals the argument, 0 for None
get_by_proxy_number(values, proxy_number) ==
    LET records == client_records(values)
        H == {i \in 1..Len(records) :
                /\ proxy_norm(records[i].client_proxy_number) # <<>>
                /\ proxy_norm(records[i].client_proxy_number) = proxy_norm(proxy_number)}
    IN  IF H = {} THEN 0 ELSE CHOOSE i \in H : \A j \in H : i <= j

\* get_by_id: the index in records of the first client with this id, 0 for None
get_by_id(values, client_id) ==
    LET records == client_records(values)
        H == {i \in 1..Len(records) : records[i].client_id = client_id}
    IN  IF H = {} THEN 0 ELSE CHOOSE i \in H : \A j \in H : i <= j

\* get_max_client_id: rows whose client_id int() refuses are skipped
RECURSIVE max_client_id(_, _)
max_client_id(records, i) ==
    IF i > Len(records) THEN 0
    ELSE LET cid == records[i].client_id
             rest == max_client_id(records, i + 1)
         IN  IF int(cid) > rest THEN int(cid) ELSE rest

get_max_client_id(values) == max_client_id(client_records(values), 1)

\* update_last_caller_by_proxy: the first row from DATA_START_ROW on whose
\* proxy equals the argument gets the caller; without such a row nothing is
\* written
update_last_caller_by_proxy(values, proxy_number, caller_number) ==
    LET records == client_records(values)
        H == {i \in 1..Len(records) :
                /\ i + 1 >= DATA_START_ROW
                /\ proxy_norm(records[i].client_proxy_number) # <<>>
                /\ proxy_norm(records[i].client_proxy_number) = proxy_norm(proxy_number)}
    IN  IF H = {} THEN values
        ELSE [values EXCEPT ![CHOOSE i \in H : \A j \in H : i <= j].client_last_caller
                                = caller_number]

\* save: append_row of columns A..E after the last row, then batch_clear of F
\* and G of the new row; client_last_caller is left empty
save(values, id, name, mail, phone, proxy) ==
    batch_clear_FG(Append(values, ClientRow(id, name, mail, phone, proxy, <<>>, <<>>)),
                   Len(values) + 1)

\* update, target_row: the index in values of the first row from
\* DATA_START_ROW on whose client_id cell, read with col_values (as written,
\* not numericised), equals the id; 0 for None
target_row(values, id) ==
    LET H == {i \in 1..Len(values) : i + 1 >= DATA_START_ROW /\ values[i].client_id = id}
    IN  IF H = {} THEN 0 ELSE CHOOSE x \in H : \A y \in H : x <= y

\* update, updated_map: client_last_caller keeps the value of the row
updated_map(existing, id, name, mail, phone, proxy) ==
    [client_id |-> id, client_name |-> name, client_mail |-> mail,
     client_real_phone |-> phone, client_proxy_number |-> proxy,
     client_last_caller |-> existing.client_last_caller]

cell_rewritten(current_val, value) == TRUE

\* str(current_val) == str(value): continue
cell_differs(current_val, value) == current_val # value

\* update, updates: the headers of the cells batch_update is given
updates(existing, map) ==
    {h \in DOMAIN map : /\ header_col(h) < first_protected_col
                        /\ cell_differs(existing[h], map[h])}

\* update: the target row gets the cells of updates, then batch_clear of its
\* F and G; without a target row the client is saved
update(values, id, name, mail, phone, proxy) ==
    IF target_row(values, id) = 0 THEN save(values, id, name, mail, phone, proxy)
    ELSE batch_clear_FG(
            [values EXCEPT ![target_row(values, id)] =
                [h \in DOMAIN @ |->
                    IF h \in updates(@, updated_map(@, id, name, mail, phone, proxy))
                    THEN updated_map(@, id, name, mail, phone, proxy)[h] ELSE @[h]]],
            target_row(values, id))

\* the cells update asks the sheet to write (batch_update, or append_row of
\* A..last_write_col when the client is saved) and to clear (batch_clear),
\* each as <<sheet row, column>>
update_ranges(values, id, name, mail, phone, proxy) ==
    IF target_row(values, id) = 0
    THEN [cells |-> {<<Len(values) + 2, c>> : c \in 1..header_col("client_proxy_number")},
          cleared |-> {<<Len(values) + 2, c>> : c \in ClearedCols}]
    ELSE [cells |-> {<<target_row(values, id) + 1, header_col(h)>> :
                        h \in updates(values[target_row(values, id)],
                                      updated_map(values[target_row(values, id)],
                                                  id, name, mail, phone, proxy))},
          cleared |-> {<<target_row(values, id) + 1, c>> : c \in ClearedCols}]

----------------------------------------------------------------------------
(* ConfirmationService *)

\* the functions defined in the body of class PoolsRepository, and so the
\* attributes PoolsRepository.<name> resolves; find_row_by_phone_number is
\* defined inside the body of mark_assigned, after its last statement, and
\* is not one of them
PoolsRepository_attributes ==
    {"list_all", "list_available", "reserve_first_available_pending",
     "reserve_first_available", "release_reservation_by_token",
     "finalize_assignment_keep_friendly", "mark_assigned_reserved",
     "save_number", "remove_number", "mark_assigned"}

\* find_row_by_phone_number(phone_number): the first row whose phone, "+" in
\* front, equals the argument, 0 for None
find_row_by_phone_number(values, phone_number) ==
    LET target == plus_prefixed(remove_spaces(strip(phone_number)))
        H == {r \in RowIndexes(values) :
                LET rec_phone == remove_spaces(strip(numericise(RowAt(values, r).phone_number)))
                IN  rec_phone # <<>> /\ plus_prefixed(rec_phone) = target}
    IN  IF H = {} THEN 0 ELSE CHOOSE r \in H : \A s \in H : r <= s

\* the client the pool row of the proxy names (step 0 of the upsert): "" when
\* the attribute lookup raises (caught), when no row is found, or when the
\* row is not assigned under this pending_id
pool_reserved_match(poolvalues, proxy_e164, pending_id) ==
    IF "find_row_by_phone_number" \notin PoolsRepository_attributes THEN ""
    ELSE LET r == find_row_by_phone_number(poolvalues, proxy_e164)
         IN  IF r # 0 /\ RowAt(poolvalues, r).status = "assigned"
                /\ RowAt(poolvalues, r).reserved_by_client_id # "" /\ pending_id # ""
                /\ RowAt(poolvalues, r).reserved_token = pending_id
             THEN RowAt(poolvalues, r).reserved_by_client_id
             ELSE ""

\* the loop over the records: the first record matching by mail or by phone
email_or_phone_match(records, email_cmp, phone_cmp) ==
    LET H == {i \in 1..Len(records) :
                \/ records[i].client_mail # "" /\ records[i].client_mail = email_cmp
                \/ LET rec_phone == remove_spaces(strip(records[i].client_real_phone))
                       rec_phone_cmp == IF startswith(rec_phone, <<"+">>)
                                        THEN remove_plus(rec_phone) ELSE rec_phone
                   IN  rec_phone_cmp # <<>> /\ rec_phone_cmp = phone_cmp}
    IN  IF H = {} THEN "" ELSE records[CHOOSE i \in H : \A j \in H : i <= j].client_id

\* found_id of the upsert: the client of step 0, else the first record
\* matching by mail or by phone, "" for None
found_client_id(poolvalues, records, proxy_e164, pending_id, email_cmp, phone_cmp) ==
    LET pool_id == pool_reserved_match(poolvalues, proxy_e164, pending_id)
    IN  IF pool_id # "" THEN pool_id
        ELSE email_or_phone_match(records, email_cmp, phone_cmp)

\* the update of the client found (found_id not ""), else the creation of a
\* client under get_max_client_id() + 1
upsert_client(values, records, found_id, client_name, email_cmp, phone_cmp, real_e164, proxy_e164) ==
    IF found_id # ""
    THEN LET i == get_by_id(values, found_id)
             existing_mail == IF i = 0 THEN email_cmp ELSE records[i].client_mail
             existing_phone == IF i = 0 THEN real_e164 ELSE records[i].client_real_phone
             existing_name == IF i = 0 THEN client_name ELSE records[i].client_name
             updated_fields ==
                 (IF email_cmp # "" /\ email_cmp # existing_mail THEN {"mail"} ELSE {})
                 \cup (IF phone_cmp # <<>> /\ phone_cmp # remove_plus(e164(existing_phone))
                       THEN {"telephone"} ELSE {})
         IN  [values |-> update(values, found_id,
                                IF client_name # "" THEN client_name ELSE existing_name,
                                email_cmp, real_e164, proxy_e164),
              client_id |-> found_id, created |-> FALSE,
              updated_fields |-> updated_fields]
    ELSE [values |-> save(values, str(get_max_client_id(values) + 1), client_name,
                          email_cmp, real_e164, proxy_e164),
          client_id |-> str(get_max_client_id(values) + 1), created |-> TRUE,
          updated_fields |-> {"mail", "telephone"}]

\* upsert_client_and_attach_proxy
upsert_client_and_attach_proxy(values, poolvalues, client_name, client_mail, client_real_phone, proxy_number, pending_id) ==
    upsert_client(values, client_records(values),
                  found_client_id(poolvalues, client_records(values), e164(proxy_number),
                                  pending_id, client_mail,
                                  remove_plus(e164(client_real_phone))),
                  client_name, client_mail, remove_plus(e164(client_real_phone)),
                  e164(client_real_phone), e164(proxy_number))

\* finalize_assignment_keep_friendly without a concurrent writer: the token
\* check, then C, F:G and I:K; False leaves the row as it is
finalize_assignment_keep_friendly(values, row_index, reserved_token, reserved_at, reserved_by_client_id, date_attribution, name) ==
    IF ~TokenMatches(RowAt(values, row_index).reserved_token, reserved_token)
    THEN values
    ELSE update_IJK(update_FG(update_C(values, row_index, "assigned"),
                              row_index, date_attribution, name),
                    row_index, reserved_token, reserved_at, reserved_by_client_id)

\* finalize_pool_assignment: raised is TRUE when it ends with an exception,
\* which error names
\* (the attribute lookup, proxy not found, token of another pending, proxy
\* assigned to another client)
finalize_pool_assignment(values, proxy_number, pending_id, client_id, name, t) ==
    IF "find_row_by_phone_number" \notin PoolsRepository_attributes
    THEN [raised |-> TRUE, error |-> "AttributeError", values |-> values]
    ELSE LET row_index == find_row_by_phone_number(values, e164(proxy_number))
         IN  IF row_index = 0
             THEN [raised |-> TRUE, error |-> "proxy introuvable", values |-> values]
             ELSE LET rec == RowAt(values, row_index)
                      same_client == rec.status = "assigned"
                                     /\ rec.reserved_by_client_id = client_id
                      reserved_token == IF rec.reserved_token = "" THEN pending_id
                                        ELSE rec.reserved_token
                      reserved_at == IF rec.reserved_at = NoTime THEN Iso(t)
                                     ELSE rec.reserved_at
                  IN  IF rec.reserved_token # "" /\ rec.reserved_token # pending_id
                         /\ ~same_client
                      THEN [raised |-> TRUE, error |-> "reserved_token mismatch",
                            values |-> values]
                      ELSE IF rec.status = "assigned"
                      THEN [raised |-> ~same_client,
                            error |-> IF same_client THEN "" ELSE "autre client",
                            values |-> values]
                      ELSE [raised |-> FALSE, error |-> "",
                            values |-> finalize_assignment_keep_friendly(
                                           values, row_index, reserved_token, reserved_at,
                                           str(int(client_id)), Iso(t), name)]

----------------------------------------------------------------------------
(* Routing *)

\* EU_COUNTRY_CODES of call_routing_service and message_routing_service
EU_COUNTRY_CODES ==
    { <<"+","3","0">>, <<"+","3","1">>, <<"+","3","2">>, <<"+","3","3">>,
      <<"+","3","4">>, <<"+","3","5","1">>, <<"+","3","5","2">>,
      <<"+","3","5","3">>, <<"+","3","5","4">>, <<"+","3","5","6">>,
      <<"+","3","5","7">>, <<"+","3","5","8">>, <<"+","3","5","9">>,
      <<"+","3","6">>, <<"+","3","7","0">>, <<"+","3","7","1">>,
      <<"+","3","7","2">>, <<"+","3","8","5">>, <<"+","3","8","6">>,
      <<"+","3","9">>, <<"+","4","0">>, <<"+","4","1">>, <<"+","4","2","0">>,
      <<"+","4","2","1">>, <<"+","4","3">>, <<"+","4","5">>, <<"+","4","6">>,
      <<"+","4","7">>, <<"+","4","8">>, <<"+","4","9">> }

\* extract_country_code(phone): the first three characters, "+" included
extract_country_code(phone) ==
    IF phone = <<>> THEN <<>>
    ELSE LET p == plus_prefixed(remove_spaces(strip(phone)))
         IN  SubSeq(p, 1, IF Len(p) < 3 THEN Len(p) ELSE 3)

\* a gate that lets every origin through
in_eu_any(cc) == TRUE

\* any(cc.startswith(code) for code in EU_COUNTRY_CODES) if cc else False
in_eu(cc) == cc # <<>> /\ \E code \in EU_COUNTRY_CODES : startswith(cc, code)

\* a callback connected to the client's own number instead of the last caller
callback_target_self(real_e164, last_caller) == real_e164

\* the number a self-callback is connected or relayed to: "+" + last
callback_target(real_e164, last_caller) == plus_prefixed(last_caller)

\* a routing that takes every caller that passes the gate for a third party
connect_call_third_party(values, client, proxy_e164, caller_number, write_ok) ==
    IF ~in_eu(extract_country_code(caller_number))
    THEN [ret |-> "country", to |-> <<>>, values |-> values]
    ELSE [ret |-> "connect", to |-> plus_prefixed(client.client_real_phone),
          values |-> IF write_ok
                     THEN update_last_caller_by_proxy(values, proxy_e164, caller_number)
                     ELSE values]

\* CallRoutingService.handle_incoming_call once the client of the proxy is
\* found: the gate, the self-callback, the third-party call.  write_ok is the
\* outcome of update_last_caller_by_proxy, whose failure is logged and the
\* call dialled.
connect_call(values, client, proxy_e164, caller_number, write_ok) ==
    LET real_e164 == plus_prefixed(client.client_real_phone)
        last_caller == remove_spaces(strip(client.client_last_caller))
    IN  IF ~in_eu(extract_country_code(caller_number))
        THEN [ret |-> "country", to |-> <<>>, values |-> values]
        ELSE IF caller_number = real_e164
        THEN IF last_caller = <<>>
             THEN [ret |-> "no_recent", to |-> <<>>, values |-> values]
             ELSE [ret |-> "callback", to |-> callback_target(real_e164, last_caller),
                   values |-> values]
        ELSE [ret |-> "connect", to |-> real_e164,
              values |-> IF write_ok
                         THEN update_last_caller_by_proxy(values, proxy_e164, caller_number)
                         ELSE values]

\* CallRoutingService.handle_incoming_call: the decision, the number dialled,
\* and the Clients sheet afterwards
handle_incoming_call(values, proxy_number, caller_number, write_ok) ==
    LET c == get_by_proxy_number(values, proxy_number)
    IN  IF c = 0 THEN [ret |-> "unknown_proxy", to |-> <<>>, values |-> values]
        ELSE connect_call(values, client_records(values)[c], plus_prefixed(proxy_number),
                          caller_number, write_ok)

\* MessageRoutingService._route_sms, part 2, once the client of the proxy is
\* found: the gate, the client's own message, the third-party message
relay_sms(values, client, proxy_e164, sender_e164) ==
    LET real_e164 == plus_prefixed(client.client_real_phone)
        last_caller == remove_spaces(strip(client.client_last_caller))
    IN  IF ~in_eu(extract_country_code(sender_e164))
        THEN [ret |-> "country", to |-> <<>>, values |-> values]
        ELSE IF sender_e164 = real_e164
        THEN IF last_caller = <<>>
             THEN [ret |-> "no_recent", to |-> <<>>, values |-> values]
             ELSE [ret |-> "callback", to |-> callback_target(real_e164, last_caller),
                   values |-> values]
        ELSE [ret |-> "connect", to |-> real_e164,
              values |-> update_last_caller_by_proxy(values, proxy_e164, sender_e164)]

\* MessageRoutingService._route_sms, part 2 (no PENDING row matched): the
\* decision, the number the message is relayed to, and the Clients sheet
\* afterwards
route_sms(values, proxy_e164, sender_e164) ==
    LET c == get_by_proxy_number(values, proxy_e164)
    IN  IF c = 0 THEN [ret |-> "unknown_proxy", to |-> <<>>, values |-> values]
        ELSE relay_sms(values, client_records(values)[c], proxy_e164, sender_e164)

----------------------------------------------------------------------------
(* SpecSeq: the confirmation workflow, one request per step *)

\* requests handled in one behaviour of SpecSeq and of SpecRoute
MaxSeqOps == 3
\* the clock of SpecSeq advances by HourStep hours up to MaxHours
HourStep == 24
MaxHours == 48

\* the contact details a create request carries for its pending_id
NameOf(pending_id) == IF pending_id = "P1" THEN "Alice" ELSE "Bob"

PoolSeqInit == << PoolRow(ProxyA, "mobile"), PoolRow(ProxyB, "local") >>

\* the Clients sheet before the workflow runs: Bob is a client already,
\* without a proxy
ClientsSeqInit ==
    << FormulaRow,
       ClientRow("1", "Bob", "bob@x.fr", PhoneBob, <<>>, <<"+","3","3">>, <<>>) >>

InitSeq ==
    /\ pool = PoolSeqInit
    /\ pending = PendingInit
    /\ clients = ClientsSeqInit
    /\ now = 0
    /\ last = NoRequest
    /\ ops = 0
    /\ pc = [p \in Procs |-> "idle"]
    /\ loc = [p \in Procs |-> IdleLoc]
    /\ uuids = [p \in Procs |-> 0]
    /\ released = {}

Request(op) ==
    [NoRequest EXCEPT !.op = op, !.prev_op = last.op, !.prev_token = last.token,
                      !.prev_count = last.count, !.routed = last.routed,
                      !.routed_before = last.routed_before]

\* routed after an event: a third-party event connected to the client is the
\* most recent one of its proxy
Routed(proxy, origin, ret) ==
    IF ret = "connect" /\ proxy \in Proxies THEN [last.routed EXCEPT ![proxy] = origin]
    ELSE last.routed

RoutedBefore(proxy, ret) ==
    IF ret = "connect" /\ proxy \in Proxies
    THEN [last.routed_before EXCEPT ![proxy] = last.routed[proxy]]
    ELSE last.routed_before

\* POST /create: create_confirmation(payload)
create_confirmation(pending_id, number_type, otp) ==
    /\ ops < MaxSeqOps
    /\ ops' = ops + 1
    /\ LET reservation == reserve_pending_with_fallback(pool, "FR", number_type, pending_id,
                                                        NameOf(pending_id), now)
           row == get_by_pending_id(pending, pending_id)
           req == [Request("create") EXCEPT !.pending_id = pending_id,
                                            !.number_type = number_type]
       IN  IF reservation.row_index = 0
           THEN \* RuntimeError("Aucun numéro disponible ..."): 400
                /\ last' = [req EXCEPT !.ret = "exhausted"]
                /\ UNCHANGED <<pool, pending>>
           ELSE LET proxy_number == RowAt(pool, reservation.row_index).phone_number
                IN  /\ pool' = reservation.values
                    /\ IF row = 0
                       THEN \* RuntimeError("pending_id introuvable ..."): 400
                            /\ last' = [req EXCEPT !.ret = "unknown_pending",
                                                   !.proxy = proxy_number]
                            /\ UNCHANGED pending
                       ELSE /\ pending' = set_proxy_and_otp(pending, row, proxy_number, otp, now)
                            /\ last' = [req EXCEPT !.ret = "ok", !.proxy = proxy_number,
                                                   !.body = otp]
    /\ UNCHANGED <<clients, now, pc, loc, uuids, released>>

\* a comparison satisfied by any code that begins like the expected one
code_matches_first_digit(provided, expected) ==
    provided # <<>> /\ expected # <<>> /\ Head(provided) = Head(expected)

\* the negation of `provided != expected`
code_matches(provided, expected) == provided = expected

\* POST /twilio/sms: handle_incoming_sms(proxy_number, sender_number, body).
\* An exception of _route_sms ends in _with_error_handling, which answers
\* "Service SMS temporairement indisponible." and undoes nothing.
handle_incoming_sms(proxy_number, sender_number, body) ==
    /\ ops < MaxSeqOps
    /\ ops' = ops + 1
    /\ \E proxy_e164 \in {plus_prefixed(e164(proxy_number))},
          sender_e164 \in {plus_prefixed(e164(sender_number))} :
       \E pending_row \in {find_pending_by_proxy_and_phone(pending, proxy_e164, sender_e164)},
          req \in {[Request("sms") EXCEPT !.proxy = proxy_e164, !.origin = sender_e164,
                                         !.body = body]} :
          IF pending_row # 0
          THEN \E rec \in {pending_records(pending)[pending_row - 1]} :
               \E expected \in {strip(rec.otp)}, provided \in {extract_otp(body)},
                  req_otp \in {[req EXCEPT !.pending_id = rec.pending_id]} :
                  IF expected = <<>>
                  THEN /\ last' = [req_otp EXCEPT !.ret = "otp_missing"]
                       /\ UNCHANGED <<pool, pending, clients>>
                  ELSE IF ~code_matches(provided, expected)
                  THEN /\ last' = [req_otp EXCEPT !.ret = "invalid_code"]
                       /\ UNCHANGED <<pool, pending, clients>>
                  ELSE \E upsert_result \in {upsert_client_and_attach_proxy(
                                                 clients, pool, rec.client_name,
                                                 rec.client_mail, strip(rec.client_real_phone),
                                                 strip(rec.proxy_number), rec.pending_id)} :
                       \E final \in {finalize_pool_assignment(
                                         pool, strip(rec.proxy_number), rec.pending_id,
                                         upsert_result.client_id, rec.client_name, now)},
                          verified \in {mark_verified(pending, pending_row, now)} :
                          IF final.raised
                          THEN /\ pending' = verified
                               /\ clients' = upsert_result.values
                               /\ last' = [req_otp EXCEPT !.ret = "unavailable",
                                                          !.error = final.error]
                               /\ UNCHANGED pool
                          ELSE /\ pending' = IF upsert_result.created
                                             THEN mark_promoted(verified, pending_row)
                                             ELSE mark_updated(verified, pending_row)
                               /\ clients' = upsert_result.values
                               /\ pool' = final.values
                               /\ last' = [req_otp EXCEPT
                                              !.ret = IF upsert_result.created
                                                      THEN "promoted" ELSE "updated"]
          ELSE \E routed \in {route_sms(clients, proxy_e164, sender_e164)} :
                  /\ clients' = routed.values
                  /\ last' = [req EXCEPT !.ret = routed.ret, !.to = routed.to,
                                         !.routed = Routed(proxy_e164, sender_e164,
                                                           routed.ret),
                                         !.routed_before = RoutedBefore(proxy_e164,
                                                                        routed.ret)]
                  /\ UNCHANGED <<pool, pending>>
    /\ UNCHANGED <<now, pc, loc, uuids, released>>

\* POST /twilio/voice: handle_incoming_call(proxy_number, caller_number)
incoming_call(proxy_number, caller_number, write_ok) ==
    /\ ops < MaxSeqOps
    /\ ops' = ops + 1
    /\ \E proxy_e164 \in {e164(proxy_number)}, caller_e164 \in {e164(caller_number)} :
       \E routed \in {handle_incoming_call(clients, proxy_e164, caller_e164, write_ok)} :
          /\ clients' = routed.values
          /\ last' = [Request("call") EXCEPT !.proxy = proxy_e164,
                                             !.origin = caller_e164,
                                             !.ret = routed.ret, !.to = routed.to,
                                             !.routed = Routed(proxy_e164, caller_e164,
                                                               routed.ret),
                                             !.routed_before =
                                                 RoutedBefore(proxy_e164, routed.ret)]
    /\ UNCHANGED <<pool, pending, now, pc, loc, uuids, released>>

\* the releases of expire_pending, one per expired row with a pending_id, in
\* sheet order
RECURSIVE release_expired(_, _, _, _)
release_expired(values, rows, expired, i) ==
    IF i > Len(rows) THEN [count |-> 0, values |-> values]
    ELSE IF (i + 1) \in expired /\ rows[i].pending_id # ""
    THEN LET one == release_reservation_by_token(values, rows[i].pending_id)
             rest == release_expired(one.values, rows, expired, i + 1)
         IN  [count |-> one.count + rest.count, values |-> rest.values]
    ELSE release_expired(values, rows, expired, i + 1)

\* POST /expire: expire_pending(hours)
expire_pending(hours, write_ok) ==
    /\ ops < MaxSeqOps
    /\ ops' = ops + 1
    /\ LET swept == expire_older_than(pending, hours, now, write_ok)
           freed == release_expired(pool, pending, swept.expired, 1)
       IN  /\ pending' = swept.values
           /\ pool' = freed.values
           /\ last' = [Request("expire") EXCEPT !.hours = hours, !.ret = "ok",
                                                !.expired = swept.expired,
                                                !.count = freed.count]
    /\ UNCHANGED <<clients, now, pc, loc, uuids, released>>

\* PoolsRepository.release_reservation_by_token(reserved_token), on its own
release_reservation(reserved_token) ==
    /\ ops < MaxSeqOps
    /\ ops' = ops + 1
    /\ LET freed == release_reservation_by_token(pool, reserved_token)
       IN  /\ pool' = freed.values
           /\ last' = [Request("release") EXCEPT !.token = reserved_token, !.ret = "ok",
                                                 !.count = freed.count]
    /\ UNCHANGED <<pending, clients, now, pc, loc, uuids, released>>

\* time passes
TickHours ==
    /\ now + HourStep * MinutesPerHour <= MaxHours * MinutesPerHour
    /\ now' = now + HourStep * MinutesPerHour
    /\ UNCHANGED <<pool, pending, clients, last, ops, pc, loc, uuids, released>>

\* the inputs of SpecSeq
SeqPendingIds == {"P1", "P2"}
SeqTypes == {"mobile", "local"}
SeqProxies == {ProxyA, ProxyB}
SeqOrigins == {PhoneAlice, PhoneBob}
\* message bodies: a code alone, a code in a sentence, a code cut in two, a
\* code glued to a letter, a code followed by more digits, no digit at all
SeqBodies ==
    OtpCodes \cup
    { <<"c","o","d","e"," ","1","2","3","4","5","6">>,
      <<"1","2","3"," ","4","5","6">>,
      <<"a","1","2","3","4","5","6">>,
      <<"1","2","3","4","5","6","7","8","9">>,
      <<"o","k">> }
ExpireHours == {24, 48}
SeqTokens == {"", "P1", "P9"}

NextSeq ==
    \/ \E pending_id \in SeqPendingIds, number_type \in SeqTypes, otp \in OtpCodes :
          create_confirmation(pending_id, number_type, otp)
    \/ \E proxy_number \in SeqProxies, sender_number \in SeqOrigins, body \in SeqBodies :
          handle_incoming_sms(proxy_number, sender_number, body)
    \/ \E hours \in ExpireHours : expire_pending(hours, RowIndexes(pending))
    \/ \E reserved_token \in SeqTokens : release_reservation(reserved_token)
    \/ TickHours

SpecSeq == InitSeq /\ [][NextSeq]_vars

----------------------------------------------------------------------------
(* SpecRoute: calls and messages to the proxies of two clients *)

\* a third party in France, one in Germany, one in the United States
PhoneX  == <<"+","3","3","7","0","0","0","0","0","0","0","2">>
PhoneDE == <<"+","4","9","1","2","3","4","5","6","7","8","9">>
PhoneUS == <<"+","1","4","1","5","5","5","5","0","1","0","0">>
\* a third party in Portugal, whose dialing code has three digits
PhonePT == <<"+","3","5","1","9","1","2","3","4","5","6","7">>

AssignedRow(phone, token, client_id, name) ==
    [PoolRow(phone, "mobile") EXCEPT !.status = "assigned", !.date_attribution = Iso(0),
                                     !.attribution_to_client_name = name,
                                     !.reserved_token = token, !.reserved_at = Iso(0),
                                     !.reserved_by_client_id = client_id]

\* both numbers of the pool assigned, each to one client
PoolRouteInit ==
    << AssignedRow(ProxyA, "uuid-a", "1", "Alice"), AssignedRow(ProxyB, "uuid-b", "2", "Bob") >>

ClientsRouteInit ==
    << FormulaRow,
       ClientRow("1", "Alice", "alice@x.fr", PhoneAlice, ProxyA, <<"+","3","3">>, <<>>),
       ClientRow("2", "Bob", "bob@x.fr", PhoneBob, ProxyB, <<"+","3","3">>, <<>>) >>

InitRoute ==
    /\ pool = PoolRouteInit
    /\ pending = <<>>
    /\ clients = ClientsRouteInit
    /\ now = 0
    /\ last = NoRequest
    /\ ops = 0
    /\ pc = [p \in Procs |-> "idle"]
    /\ loc = [p \in Procs |-> IdleLoc]
    /\ uuids = [p \in Procs |-> 0]
    /\ released = {}

\* the inputs of SpecRoute
RouteProxies == {ProxyA, ProxyB, ProxyU}
RouteOrigins == {PhoneAlice, PhoneBob, PhoneX, PhoneDE, PhoneUS, PhonePT}
RouteBodies == { <<"o","k">> }

NextRoute ==
    \/ \E proxy_number \in RouteProxies, caller_number \in RouteOrigins :
          incoming_call(proxy_number, caller_number, TRUE)
    \/ \E proxy_number \in RouteProxies, sender_number \in RouteOrigins, body \in RouteBodies :
          handle_incoming_sms(proxy_number, sender_number, body)

SpecRoute == InitRoute /\ [][NextRoute]_vars

----------------------------------------------------------------------------
(* SpecWrites: the pool operations run alone, with a sheet.update that may *)
(* raise.  fail numbers the sheet.update calls of the operation from 1 and  *)
(* names the one that raises; 0 means every call succeeds.                  *)

\* operations handled in one behaviour of SpecWrites
MaxWriteOps == 2

\* reserve_first_available (kind "assign": C, then I:K with the uuid and the
\* client_id) and reserve_first_available_pending (kind "reserve_pending": C,
\* G, then I:K with the pending_id), no other writer in between.  snap is
\* the get_all_values() of the attempt and r the row the scan loop is at; a
\* sheet.update that raises is logged and the loop continues with the next
\* row of snap; the loop over the rows ended, the next attempt reads again.
RECURSIVE reserve_first_available(_, _, _, _, _, _, _)
reserve_first_available(values, snap, r, attempt, fail, req, t) ==
    IF out_of_tries(attempt) THEN [row_index |-> 0, values |-> values]
    ELSE IF r > Len(snap) + 1
    THEN reserve_first_available(values, values, 2, attempt + 1, fail, req, t)
    ELSE IF ~IsCandidate(RowAt(snap, r), "FR", req.number_type, t)
    THEN reserve_first_available(values, snap, r + 1, attempt, fail, req, t)
    ELSE IF fail = 1
    THEN reserve_first_available(values, snap, r + 1, attempt, 0, req, t)
    ELSE IF fail = 2
    THEN reserve_first_available(update_C(values, r, "reserved"), snap, r + 1, attempt, 0,
                                 req, t)
    ELSE IF fail = 3 /\ req.kind = "reserve_pending"
    THEN reserve_first_available(update_G(update_C(values, r, "reserved"), r, req.name),
                                 snap, r + 1, attempt, 0, req, t)
    ELSE [row_index |-> r,
          values |-> update_IJK(IF req.kind = "reserve_pending"
                                THEN update_G(update_C(values, r, "reserved"), r, req.name)
                                ELSE update_C(values, r, "reserved"),
                                r, req.token, Iso(t), req.client_id)]

\* finalize_assignment_keep_friendly: the token check, then C, F:G, I:K; a
\* sheet.update that raises ends it with False and the cells written so far
finalize_assignment(values, row_index, reserved_token, reserved_at, reserved_by_client_id, t, name, fail) ==
    IF ~TokenMatches(RowAt(values, row_index).reserved_token, reserved_token)
    THEN [ok |-> FALSE, conflict |-> TRUE, values |-> values]
    ELSE IF fail = 1 THEN [ok |-> FALSE, conflict |-> FALSE, values |-> values]
    ELSE IF fail = 2
    THEN [ok |-> FALSE, conflict |-> FALSE, values |-> update_C(values, row_index, "assigned")]
    ELSE IF fail = 3
    THEN [ok |-> FALSE, conflict |-> FALSE,
          values |-> update_FG(update_C(values, row_index, "assigned"), row_index,
                               Iso(t), name)]
    ELSE [ok |-> TRUE, conflict |-> FALSE,
          values |-> finalize_assignment_keep_friendly(values, row_index, reserved_token,
                                                       reserved_at, reserved_by_client_id,
                                                       Iso(t), name)]

\* the loop of release_reservation_by_token over the rows it selected: C,
\* I:K, G and count += 1; a sheet.update that raises is logged and the loop
\* continues with the next row
RECURSIVE release_loop(_, _, _, _)
release_loop(values, rows, fail, count) ==
    IF rows = <<>> THEN [count |-> count, values |-> values]
    ELSE IF fail = 1 THEN release_loop(values, Tail(rows), 0, count)
    ELSE IF fail = 2
    THEN release_loop(update_C(values, Head(rows), "available"), Tail(rows), 0, count)
    ELSE IF fail = 3
    THEN release_loop(update_IJK(update_C(values, Head(rows), "available"),
                                 Head(rows), "", NoTime, ""),
                      Tail(rows), 0, count)
    ELSE release_loop(release_rows(values, <<Head(rows)>>), Tail(rows),
                      IF fail > 3 THEN fail - 3 ELSE 0, count + 1)

\* mark_assigned_reserved: C, F:G, and I:K when one of reserved_token,
\* reserved_at, reserved_by_client_id is given (trace is <<>> when none is);
\* no check of the row's status or token
mark_assigned_reserved(values, row_index, t, name, trace, fail) ==
    IF fail = 1 THEN values
    ELSE IF fail = 2 THEN update_C(values, row_index, "assigned")
    ELSE IF fail = 3 \/ trace = <<>>
    THEN update_FG(update_C(values, row_index, "assigned"), row_index, Iso(t), name)
    ELSE update_IJK(update_FG(update_C(values, row_index, "assigned"), row_index,
                              Iso(t), name),
                    row_index, trace[1], trace[2], trace[3])

\* mark_assigned: the first record of get_all_records() (cells numericised)
\* whose phone_number equals the argument, then mark_assigned_reserved on
\* its row without a trace; nothing when no record matches
mark_assigned(values, phone_number, t, name, fail) ==
    LET H == {r \in RowIndexes(values) :
                strip(numericise(RowAt(values, r).phone_number)) = strip(phone_number)}
    IN  IF H = {} THEN values
        ELSE mark_assigned_reserved(values, CHOOSE r \in H : \A x \in H : r <= x, t, name,
                                    <<>>, fail)

InitWrites ==
    /\ pool = PoolInit
    /\ now = 0
    /\ ops = 0
    /\ last = NoRequest
    /\ pending = <<>>
    /\ clients = <<>>
    /\ pc = [p \in Procs |-> "idle"]
    /\ loc = [p \in Procs |-> IdleLoc]
    /\ uuids = [p \in Procs |-> 0]
    /\ released = {}

\* reserve_first_available(client_id) / reserve_first_available_pending(pending_id, name)
Reserve(kind, p, fail) ==
    /\ ops < MaxWriteOps
    /\ ops' = ops + 1
    /\ \E req \in {[kind |-> kind, number_type |-> "mobile",
                    token |-> IF kind = "assign" THEN uuid4("w", ops + 1) ELSE PendingIdOf(p),
                    name |-> ClientNameOf(p),
                    client_id |-> IF kind = "assign" THEN ClientIdOf(p) ELSE ""]} :
       \E reservation \in {reserve_first_available(pool, pool, 2, 0, fail, req, now)} :
          /\ pool' = reservation.values
          /\ last' = [Request(kind) EXCEPT !.token = req.token, !.fail = fail,
                                           !.name = req.name,
                                           !.row = reservation.row_index,
                                           !.ret = IF reservation.row_index = 0
                                                   THEN "exhausted" ELSE "reserved"]
    /\ UNCHANGED <<pending, clients, now, pc, loc, uuids, released>>

\* finalize_assignment_keep_friendly(row_index, reserved_token, reserved_at,
\* reserved_by_client_id, attribution_to_client_name)
Finalize(row_index, reserved_token, p, name, fail) ==
    /\ ops < MaxWriteOps
    /\ ops' = ops + 1
    /\ \E final \in {finalize_assignment(pool, row_index, reserved_token,
                                         RowAt(pool, row_index).reserved_at,
                                         ClientIdOf(p), now, name, fail)} :
          /\ pool' = final.values
          /\ last' = [Request("finalize") EXCEPT !.token = reserved_token, !.fail = fail,
                                                 !.name = name, !.row = row_index,
                                                 !.ret = IF final.ok THEN "ok"
                                                         ELSE IF final.conflict
                                                         THEN "conflict" ELSE "failed"]
    /\ UNCHANGED <<pending, clients, now, pc, loc, uuids, released>>

\* release_reservation_by_token(reserved_token)
Release(reserved_token, fail) ==
    /\ ops < MaxWriteOps
    /\ ops' = ops + 1
    /\ \E freed \in {IF reserved_token = "" THEN [count |-> 0, values |-> pool]
                     ELSE release_loop(pool, ReleaseRows(pool, reserved_token, 1), fail, 0)} :
          /\ pool' = freed.values
          /\ last' = [Request("release") EXCEPT !.token = reserved_token, !.fail = fail,
                                                !.ret = "ok", !.count = freed.count]
    /\ UNCHANGED <<pending, clients, now, pc, loc, uuids, released>>

\* mark_assigned_reserved(row_index, friendly_name, attribution_to_client_name)
MarkAssignedReserved(row_index, name, trace, fail) ==
    /\ ops < MaxWriteOps
    /\ ops' = ops + 1
    /\ pool' = mark_assigned_reserved(pool, row_index, now, name, trace, fail)
    /\ last' = [Request("mark_assigned_reserved") EXCEPT !.fail = fail, !.name = name,
                                                         !.row = row_index, !.ret = "ok"]
    /\ UNCHANGED <<pending, clients, now, pc, loc, uuids, released>>

\* mark_assigned(phone_number, attribution_to_client_name)
MarkAssigned(phone_number, name, fail) ==
    /\ ops < MaxWriteOps
    /\ ops' = ops + 1
    /\ pool' = mark_assigned(pool, phone_number, now, name, fail)
    /\ last' = [Request("mark_assigned") EXCEPT !.fail = fail, !.name = name,
                                                !.proxy = phone_number, !.ret = "ok"]
    /\ UNCHANGED <<pending, clients, now, pc, loc, uuids, released>>

\* the inputs of SpecWrites
WriteKinds == {"assign", "reserve_pending"}
WriteFails == 0..3
WriteNames == {"", "Alice"}
\* the tokens a caller holds: one of a row, or one that is gone
WriteTokens == {"gone"} \cup {pool[i].reserved_token : i \in 1..Len(pool)}
\* a trace given to mark_assigned_reserved, or none
WriteTraces == { <<>>, <<"P1", NoTime, "1">> }
\* a phone as the sheet shows it, and as get_all_records() returns it
WritePhones == {ProxyA, Tail(ProxyA)}

NextWrites ==
    \/ \E kind \in WriteKinds, p \in Procs, fail \in WriteFails : Reserve(kind, p, fail)
    \/ \E row_index \in RowIndexes(pool), reserved_token \in WriteTokens \ {""}, p \in Procs,
          name \in WriteNames, fail \in WriteFails :
          Finalize(row_index, reserved_token, p, name, fail)
    \/ \E reserved_token \in WriteTokens, fail \in WriteFails : Release(reserved_token, fail)
    \/ \E row_index \in RowIndexes(pool), name \in WriteNames, trace \in WriteTraces,
          fail \in WriteFails : MarkAssignedReserved(row_index, name, trace, fail)
    \/ \E phone_number \in WritePhones, name \in WriteNames, fail \in WriteFails :
          MarkAssigned(phone_number, name, fail)
    \/ Tick

SpecWrites == InitWrites /\ [][NextWrites]_vars

----------------------------------------------------------------------------
(* SpecClients: the writers of the Clients sheet, one call per step *)

\* calls made in one behaviour of SpecClients
MaxClientOps == 3

\* the Clients sheet before the calls: Bob holds a proxy and values typed
\* into F and G, Alice holds no proxy
ClientsRepoInit ==
    << FormulaRow,
       [ClientRow("1", "Bob", "bob@x.fr", PhoneBob, ProxyB, <<"+","3","3">>, <<>>)
            EXCEPT !.client_iso_residency = <<"F","R">>, !.fg_typed = TRUE],
       ClientRow("2", "Alice", "alice@x.fr", PhoneAlice, <<>>, <<"+","3","3">>, <<>>) >>

\* the pool before the calls: the first number reserved under pending P2,
\* the second assigned to Bob
PoolClientsInit ==
    << [PoolRow(ProxyA, "mobile") EXCEPT !.status = "reserved", !.reserved_token = "P2",
                                         !.reserved_at = Iso(0),
                                         !.attribution_to_client_name = "Bob"],
       AssignedRow(ProxyB, "P0", "1", "Bob") >>

InitClients ==
    /\ pool = PoolClientsInit
    /\ pending = <<>>
    /\ clients = ClientsRepoInit
    /\ now = 0
    /\ last = NoRequest
    /\ ops = 0
    /\ pc = [p \in Procs |-> "idle"]
    /\ loc = [p \in Procs |-> IdleLoc]
    /\ uuids = [p \in Procs |-> 0]
    /\ released = {}

\* ClientsRepository.update(client)
RepoUpdate(id, name, mail, phone, proxy) ==
    /\ ops < MaxClientOps
    /\ clients' = update(clients, id, name, mail, phone, proxy)
    /\ last' = [NoRequest EXCEPT !.op = "update", !.id = id,
                    !.cells = update_ranges(clients, id, name, mail, phone, proxy).cells,
                    !.cleared = update_ranges(clients, id, name, mail, phone, proxy).cleared]
    /\ ops' = ops + 1
    /\ UNCHANGED <<pool, now, pc, loc, uuids, released, pending>>

\* ClientsService.update_client(client_id, client_name=, client_mail=,
\* client_real_phone=, client_proxy_number=): an argument left out is "" or
\* <<>>; existing is the record get_by_id returns, its cells numericised
UpdateClient(client_id, name, mail, phone, proxy) ==
    /\ ops < MaxClientOps
    /\ \E i \in {get_by_id(clients, client_id)} :
        IF i = 0
        THEN /\ last' = [NoRequest EXCEPT !.op = "update_client", !.id = client_id,
                                          !.error = "ValueError"]
             /\ UNCHANGED clients
        ELSE \E existing \in {client_records(clients)[i]} :
             \E updated \in {[client_name |-> IF name # "" THEN name ELSE existing.client_name,
                              client_mail |-> IF mail # "" THEN mail ELSE existing.client_mail,
                              client_real_phone |-> IF phone # <<>> THEN phone
                                                    ELSE existing.client_real_phone,
                              client_proxy_number |-> IF proxy # <<>> THEN proxy
                                                      ELSE existing.client_proxy_number]} :
                /\ clients' = update(clients, client_id, updated.client_name,
                                     updated.client_mail, updated.client_real_phone,
                                     updated.client_proxy_number)
                /\ last' = [NoRequest EXCEPT !.op = "update_client", !.id = client_id,
                                !.cells = update_ranges(clients, client_id, updated.client_name,
                                              updated.client_mail, updated.client_real_phone,
                                              updated.client_proxy_number).cells,
                                !.cleared = update_ranges(clients, client_id, updated.client_name,
                                              updated.client_mail, updated.client_real_phone,
                                              updated.client_proxy_number).cleared]
    /\ ops' = ops + 1
    /\ UNCHANGED <<pool, now, pc, loc, uuids, released, pending>>

\* the upsert of _route_sms once the OTP of the pending row pd is verified:
\* upsert_client_and_attach_proxy with the contact details and the proxy of
\* the row
VerifyUpsert(pd) ==
    /\ ops < MaxClientOps
    /\ \E r \in {upsert_client_and_attach_proxy(clients, pool, pd.client_name, pd.client_mail,
                                                pd.client_real_phone, pd.proxy_number,
                                                pd.pending_id)} :
          /\ clients' = r.values
          /\ last' = [NoRequest EXCEPT !.op = "upsert", !.id = r.client_id,
                                       !.pending_id = pd.pending_id,
                                       !.proxy = pd.proxy_number,
                                       !.ret = IF r.created THEN "created" ELSE "updated"]
    /\ ops' = ops + 1
    /\ UNCHANGED <<pool, now, pc, loc, uuids, released, pending>>

\* ClientsRepository.update_last_caller_by_proxy(proxy_number, caller_number)
UpdateLastCaller(proxy_number, caller_number) ==
    /\ ops < MaxClientOps
    /\ clients' = update_last_caller_by_proxy(clients, proxy_number, caller_number)
    /\ last' = [NoRequest EXCEPT !.op = "update_last_caller", !.proxy = proxy_number,
                                 !.origin = caller_number]
    /\ ops' = ops + 1
    /\ UNCHANGED <<pool, now, pc, loc, uuids, released, pending>>

\* the inputs of SpecClients: the clients handed to update (Bob renamed, Bob
\* under another proxy, Alice as she is, a client of no row, a client whose
\* id is the empty id cell of row 2) and the arguments of update_client
RepoClients ==
    { [id |-> "1", name |-> "Robert", mail |-> "bob@x.fr", phone |-> PhoneBob, proxy |-> ProxyB],
      [id |-> "1", name |-> "Bob", mail |-> "bob@x.fr", phone |-> PhoneBob, proxy |-> ProxyA],
      [id |-> "2", name |-> "Alice", mail |-> "alice@x.fr", phone |-> PhoneAlice, proxy |-> <<>>],
      [id |-> "3", name |-> "Carol", mail |-> "carol@x.fr", phone |-> PhoneX, proxy |-> ProxyA],
      [id |-> "", name |-> "", mail |-> "", phone |-> <<>>, proxy |-> <<>>] }
\* the pending rows whose OTP may be verified: Bob's, Alice's, Carol's, who
\* is no client yet, and one that gives Alice's mail with Bob's phone, each
\* holding the reserved number
UpsertPendings ==
    { [pending_id |-> "P2", client_name |-> "Bob", client_mail |-> "bob@x.fr",
       client_real_phone |-> PhoneBob, proxy_number |-> ProxyA],
      [pending_id |-> "P1", client_name |-> "Alice", client_mail |-> "alice@x.fr",
       client_real_phone |-> PhoneAlice, proxy_number |-> ProxyA],
      [pending_id |-> "P3", client_name |-> "Carol", client_mail |-> "carol@x.fr",
       client_real_phone |-> PhoneX, proxy_number |-> ProxyA],
      [pending_id |-> "P5", client_name |-> "Alice", client_mail |-> "alice@x.fr",
       client_real_phone |-> PhoneBob, proxy_number |-> ProxyA] }
ClientIds == {"", "1", "3"}
ClientNames == {"", "Robert"}
ClientPhones == {<<>>, PhoneX}
ClientProxies == {<<>>, ProxyA}

NextClients ==
    \/ \E c \in RepoClients : RepoUpdate(c.id, c.name, c.mail, c.phone, c.proxy)
    \/ \E id \in ClientIds, name \in ClientNames, phone \in ClientPhones, proxy \in ClientProxies :
          UpdateClient(id, name, "", phone, proxy)
    \/ \E proxy_number \in {ProxyA, ProxyB}, caller_number \in {PhoneX} :
          UpdateLastCaller(proxy_number, caller_number)
    \/ \E pd \in UpsertPendings : VerifyUpsert(pd)

SpecClients == InitClients /\ [][NextClients]_vars

----------------------------------------------------------------------------
(* SpecPromote: concurrent upserts of verified pending rows, one sheet call *)
(* of upsert_client_and_attach_proxy per step                               *)

\* upserts started in one behaviour of SpecPromote
MaxPromoteOps == 3

\* the pending rows verified: Bob is a client already, Carol and Dave are not
PromotePendings ==
    { [pending_id |-> "P2", client_name |-> "Bob", client_mail |-> "bob@x.fr",
       client_real_phone |-> PhoneBob, proxy_number |-> ProxyA],
      [pending_id |-> "P3", client_name |-> "Carol", client_mail |-> "carol@x.fr",
       client_real_phone |-> PhoneX, proxy_number |-> ProxyA],
      [pending_id |-> "P4", client_name |-> "Dave", client_mail |-> "dave@x.fr",
       client_real_phone |-> PhoneDE, proxy_number |-> ProxyB] }

InitPromote ==
    /\ pool = PoolSeqInit
    /\ pending = <<>>
    /\ clients = ClientsSeqInit
    /\ now = 0
    /\ last = NoRequest
    /\ ops = 0
    /\ pc = [p \in Procs |-> "idle"]
    /\ loc = [p \in Procs |-> [pd |-> "", new_id |-> 0]]
    /\ uuids = [p \in Procs |-> 0]
    /\ released = {}

\* records = ws.get_all_records() and the search of the client: a client
\* found is updated, else the caller goes on to get_max_client_id
UpsertSearch(p, pd) ==
    /\ pc[p] = "idle"
    /\ ops < MaxPromoteOps
    /\ ops' = ops + 1
    /\ \E found_id \in {found_client_id(pool, client_records(clients), e164(pd.proxy_number),
                                        pd.pending_id, pd.client_mail,
                                        remove_plus(e164(pd.client_real_phone)))} :
          IF found_id # ""
          THEN /\ clients' = upsert_client(clients, client_records(clients), found_id,
                                           pd.client_name, pd.client_mail,
                                           remove_plus(e164(pd.client_real_phone)),
                                           e164(pd.client_real_phone),
                                           e164(pd.proxy_number)).values
               /\ last' = [NoRequest EXCEPT !.op = "upsert", !.id = found_id,
                                            !.pending_id = pd.pending_id, !.ret = "updated"]
               /\ UNCHANGED <<pc, loc>>
          ELSE /\ pc' = [pc EXCEPT ![p] = "get_max"]
               /\ loc' = [loc EXCEPT ![p] = [pd |-> pd.pending_id, new_id |-> 0]]
               /\ UNCHANGED <<clients, last>>
    /\ UNCHANGED <<pool, now, uuids, released, pending>>

\* new_id = ClientsRepository.get_max_client_id() + 1
UpsertGetMax(p) ==
    /\ pc[p] = "get_max"
    /\ pc' = [pc EXCEPT ![p] = "save"]
    /\ loc' = [loc EXCEPT ![p].new_id = get_max_client_id(clients) + 1]
    /\ UNCHANGED <<pool, now, uuids, released, pending, clients, last, ops>>

\* ClientsRepository.save(client)
UpsertSave(p) ==
    /\ pc[p] = "save"
    /\ \E pd \in {x \in PromotePendings : x.pending_id = loc[p].pd} :
          clients' = save(clients, str(loc[p].new_id), pd.client_name, pd.client_mail,
                          e164(pd.client_real_phone), e164(pd.proxy_number))
    /\ last' = [NoRequest EXCEPT !.op = "upsert", !.id = str(loc[p].new_id),
                                 !.pending_id = loc[p].pd, !.ret = "created"]
    /\ pc' = [pc EXCEPT ![p] = "idle"]
    /\ loc' = [loc EXCEPT ![p] = [pd |-> "", new_id |-> 0]]
    /\ UNCHANGED <<pool, now, uuids, released, pending, ops>>

NextPromote ==
    \/ \E p \in Procs, pd \in PromotePendings : UpsertSearch(p, pd)
    \/ \E p \in Procs : UpsertGetMax(p)
    \/ \E p \in Procs : UpsertSave(p)

SpecPromote == InitPromote /\ [][NextPromote]_vars

----------------------------------------------------------------------------
(* app/validator.py, on texts given character by character *)

UpperChars ==
    << "A", "B", "C", "D", "E", "F", "G", "H", "I", "J", "K", "L", "M", "N", "O", "P", "Q", "R", "S", "T", "U", "V", "W", "X", "Y", "Z" >>
LowerChars ==
    << "a", "b", "c", "d", "e", "f", "g", "h", "i", "j", "k", "l", "m", "n", "o", "p", "q", "r", "s", "t", "u", "v", "w", "x", "y", "z" >>

\* c.isalpha()
IsAlpha(c) == \E i \in 1..Len(UpperChars) : c = UpperChars[i] \/ c = LowerChars[i]

\* s.lower() and s.upper()
lower(s) ==
    [i \in 1..Len(s) |->
        IF \E k \in 1..Len(UpperChars) : UpperChars[k] = s[i]
        THEN LowerChars[CHOOSE k \in 1..Len(UpperChars) : UpperChars[k] = s[i]]
        ELSE s[i]]
upper(s) ==
    [i \in 1..Len(s) |->
        IF \E k \in 1..Len(LowerChars) : LowerChars[k] = s[i]
        THEN UpperChars[CHOOSE k \in 1..Len(LowerChars) : LowerChars[k] = s[i]]
        ELSE s[i]]

\* the str of a text: its characters joined
RECURSIVE text(_)
text(s) == IF s = <<>> THEN "" ELSE Head(s) \o text(Tail(s))

\* a character with ord(c) < 32 that strip() leaves in place; BEL stands for
\* chr(7)
ControlChars == {"BEL"}

\* the separators _reject_phone_separators refuses
PhoneSeparators == {" ", "-", "(", ")", ".", "/", "\\"}

\* _RE_E164_STRICT = ^\+[1-9]\d{7,14}$
RE_E164_STRICT(s) ==
    /\ Len(s) >= 9 /\ Len(s) <= 16
    /\ s[1] = "+"
    /\ IsDigit(s[2]) /\ s[2] # "0"
    /\ \A i \in 3..Len(s) : IsDigit(s[i])

\* _RE_EMAIL_STRICT = ^[^@\s]+@[^@\s]+\.[^@\s]+$
RE_EMAIL_STRICT(s) ==
    \E a \in 2..Len(s) :
        /\ s[a] = "@"
        /\ \A i \in 1..Len(s) : s[i] # " " /\ (s[i] = "@" => i = a)
        /\ \E d \in (a + 2)..(Len(s) - 1) : s[d] = "."

\* each validator gives [ok, value]: ok FALSE stands for ValidationIssue

\* name_strict(value, max_len=120)
name_strict(value) ==
    LET raw == strip(value)
    IN  [ok |-> /\ raw # <<>>
                /\ Len(raw) <= 120
                /\ \A i \in 1..Len(raw) : raw[i] \notin ControlChars,
         value |-> raw]

\* email_strict(value)
email_strict(value) ==
    LET raw == strip(value)
    IN  [ok |-> raw # <<>> /\ RE_EMAIL_STRICT(raw) /\ Len(raw) <= 254, value |-> raw]

\* phone_e164_strict(value): 00XX.. becomes +XX.., digits alone get the "+"
phone_e164_strict(value) ==
    LET raw == strip(value)
        from00 == IF startswith(raw, <<"0", "0">>)
                  THEN <<"+">> \o SubSeq(raw, 3, Len(raw)) ELSE raw
        normalized == IF ~startswith(from00, <<"+">>) /\ from00 # <<>> /\ AllDigits(from00)
                         /\ RE_E164_STRICT(<<"+">> \o from00)
                      THEN <<"+">> \o from00 ELSE from00
    IN  [ok |-> /\ raw # <<>>
                /\ \A i \in 1..Len(raw) : raw[i] \notin PhoneSeparators
                /\ (startswith(raw, <<"0", "0">>) => RE_E164_STRICT(from00))
                /\ RE_E164_STRICT(normalized),
         value |-> normalized]

\* iso_country_strict(value)
iso_country_strict(value) ==
    LET raw == upper(strip(value))
    IN  [ok |-> Len(raw) = 2 /\ \A i \in 1..Len(raw) : IsAlpha(raw[i]), value |-> raw]

number_type_any(value) == [ok |-> TRUE, value |-> text(lower(strip(value)))]

\* number_type_strict(value): national stands for local
number_type_strict(value) ==
    LET raw == lower(strip(value))
        typ == IF text(raw) = "national" THEN "local" ELSE text(raw)
    IN  [ok |-> typ \in {"mobile", "local"}, value |-> typ]
----------------------------------------------------------------------------
(* SpecCreate: POST /confirmations/create from its payload on, with the    *)
(* update_cell calls of set_proxy_and_otp that may raise                    *)

\* requests handled in one behaviour of SpecCreate
MaxCreateOps == 2

\* set_proxy_and_otp from the row found on: fail numbers the update_cell
\* calls from 1 (proxy_number, otp, status) and names the one that raises, 0
\* for none; the cells before it are written, the others are not
set_proxy_and_otp_cells(values, row, proxy_number, otp, t, fail) ==
    [values EXCEPT
        ![row - 1].proxy_number = IF fail = 1 THEN @ ELSE proxy_number,
        ![row - 1].otp = IF fail \in {1, 2} THEN @ ELSE otp,
        ![row - 1].status = IF fail \in {1, 2, 3} THEN @ ELSE "PENDING",
        ![row - 1].created_at = IF fail \in {1, 2, 3} \/ @ # NoTime THEN @ ELSE Iso(t)]

\* settings.TWILIO_PHONE_COUNTRY, taken when the payload names no country
TWILIO_PHONE_COUNTRY == <<"U", "S">>

\* the attributes class Settings defines
Settings_attributes ==
    {"TWILIO_ACCOUNT_SID", "TWILIO_AUTH_TOKEN", "PUBLIC_BASE_URL", "VOICE_WEBHOOK_URL",
     "GOOGLE_SHEET_NAME", "GOOGLE_SERVICE_ACCOUNT_FILE", "TWILIO_PHONE_COUNTRY"}

\* the validation of create_confirmation, in its order: "" when the payload
\* passes, else the field refused; number_type left out is looked up in
\* settings, which raises AttributeError
payload_error(payload) ==
    IF strip(payload.pending_id) = <<>> THEN "pending_id"
    ELSE IF ~name_strict(payload.client_name).ok THEN "client_name"
    ELSE IF ~email_strict(payload.client_mail).ok THEN "client_mail"
    ELSE IF ~phone_e164_strict(payload.client_real_phone).ok THEN "client_real_phone"
    ELSE IF ~iso_country_strict(IF payload.country_iso # <<>> THEN payload.country_iso
                                ELSE TWILIO_PHONE_COUNTRY).ok THEN "country_iso"
    ELSE IF payload.number_type = <<>> /\ "TWILIO_NUMBER_TYPE" \notin Settings_attributes
         THEN "AttributeError"
    ELSE IF ~number_type_strict(payload.number_type).ok THEN "number_type"
    ELSE ""

\* create_confirmation(payload): ret is the outcome (validation and internal
\* before any sheet is read, exhausted, unknown_pending, write_failed,
\* send_failed, ok), to the number the OTP message is sent to; fail = 4 is
\* TwilioClient.send_sms raising (the ensure_*_webhook calls before it catch
\* their own exceptions)
post_create(payload, otp, fail) ==
    /\ ops < MaxCreateOps
    /\ ops' = ops + 1
    /\ \E req \in {[Request("create") EXCEPT !.fail = fail, !.payload = payload]} :
       IF payload_error(payload) # ""
       THEN /\ last' = [req EXCEPT !.error = payload_error(payload),
                                   !.ret = IF payload_error(payload) = "AttributeError"
                                           THEN "internal" ELSE "validation"]
            /\ UNCHANGED <<pool, pending>>
       ELSE \E pending_id \in {text(strip(payload.pending_id))},
               client_phone \in {phone_e164_strict(payload.client_real_phone).value},
               number_type \in {number_type_strict(payload.number_type).value} :
            \E reservation \in {reserve_pending_with_fallback(
                                    pool,
                                    text(iso_country_strict(
                                             IF payload.country_iso # <<>>
                                             THEN payload.country_iso
                                             ELSE TWILIO_PHONE_COUNTRY).value),
                                    number_type, pending_id,
                                    text(name_strict(payload.client_name).value), now)},
               req_id \in {[req EXCEPT !.pending_id = pending_id,
                                       !.number_type = number_type]} :
               IF reservation.row_index = 0
               THEN /\ last' = [req_id EXCEPT !.ret = "exhausted"]
                    /\ UNCHANGED <<pool, pending>>
               ELSE \E proxy_number \in {RowAt(pool, reservation.row_index).phone_number},
                       row \in {get_by_pending_id(pending, pending_id)} :
                       /\ pool' = reservation.values
                       /\ IF row = 0
                          THEN /\ last' = [req_id EXCEPT !.ret = "unknown_pending",
                                                         !.proxy = proxy_number]
                               /\ UNCHANGED pending
                          ELSE /\ pending' = set_proxy_and_otp_cells(pending, row, proxy_number,
                                                                     otp, now, fail)
                               /\ last' = IF fail \in {1, 2, 3}
                                          THEN [req_id EXCEPT !.ret = "write_failed",
                                                              !.proxy = proxy_number]
                                          ELSE IF fail = 4
                                          THEN [req_id EXCEPT !.ret = "send_failed",
                                                              !.proxy = proxy_number]
                                          ELSE [req_id EXCEPT !.ret = "ok",
                                                              !.proxy = proxy_number,
                                                              !.body = otp,
                                                              !.to = client_phone]
    /\ UNCHANGED <<clients, now, pc, loc, uuids, released>>

\* the payload of a well-formed request for pending_id
Payload(pending_id, name, mail, phone) ==
    [pending_id |-> pending_id, client_name |-> name, client_mail |-> mail,
     client_real_phone |-> phone, country_iso |-> <<"F", "R">>,
     number_type |-> <<"m", "o", "b", "i", "l", "e">>]

MailAlice == <<"a", "l", "i", "c", "e", "@", "x", ".", "f", "r">>
PayloadAlice == Payload(<<"P", "1">>, <<"A", "l", "i", "c", "e">>, MailAlice, PhoneAlice)

PayloadZoe ==
    Payload(<<"P", "9">>, <<"Z", "o", "e">>, <<"z", "o", "e", "@", "x", ".", "f", "r">>, PhoneX)

\* well-formed payloads: Alice's request as it is, with the country in lower
\* case, with the type national in capitals, with the phone written 00.. and
\* without "+", with no country; Bob's request; Zoe's request, whose
\* pending_id no row carries, with and without a country
ValidPayloads ==
    { PayloadAlice,
      [PayloadAlice EXCEPT !.country_iso = <<" ", "f", "r">>],
      [PayloadAlice EXCEPT !.number_type = <<"N", "a", "t", "i", "o", "n", "a", "l">>],
      [PayloadAlice EXCEPT !.client_real_phone = <<"0", "0">> \o Tail(PhoneAlice)],
      [PayloadAlice EXCEPT !.client_real_phone = Tail(PhoneAlice)],
      [PayloadAlice EXCEPT !.country_iso = <<>>],
      Payload(<<"P", "2">>, <<"B", "o", "b">>, <<"b", "o", "b", "@", "x", ".", "f", "r">>, PhoneBob),
      PayloadZoe,
      [PayloadZoe EXCEPT !.country_iso = <<>>] }

\* malformed payloads: Alice's request with one field left out or ill-formed
MalformedPayloads ==
    { [PayloadAlice EXCEPT !.pending_id = <<" ">>],
      [PayloadAlice EXCEPT !.client_name = <<>>],
      [PayloadAlice EXCEPT !.client_name = <<"A", "BEL", "l">>],
      [PayloadAlice EXCEPT !.client_mail = <<"a", "l", "i", "c", "e", "@", "x">>],
      [PayloadAlice EXCEPT !.client_mail = <<"a", " ", "b", "@", "x", ".", "f", "r">>],
      [PayloadAlice EXCEPT !.client_real_phone = <<"+", "3", "3", " ", "6", "0", "0", "0", "0", "0", "0", "0", "1">>],
      [PayloadAlice EXCEPT !.client_real_phone = <<"0", "6", "0", "0", "0", "0", "0", "0", "0", "1">>],
      [PayloadAlice EXCEPT !.client_real_phone = <<"+", "3", "3", "6">>],
      [PayloadAlice EXCEPT !.country_iso = <<"F", "R", "A">>],
      [PayloadAlice EXCEPT !.country_iso = <<"F", "1">>],
      [PayloadAlice EXCEPT !.number_type = <<"f", "a", "x">>],
      [PayloadAlice EXCEPT !.number_type = <<>>] }

CreateOtps == { <<"1","2","3","4","5","6">> }
CreateFails == 0..4

NextCreate ==
    \/ \E payload \in ValidPayloads \cup MalformedPayloads, otp \in CreateOtps, fail \in CreateFails :
          post_create(payload, otp, fail)
    \/ \E reserved_token \in {"P1", "P9"} :
          ops < MaxCreateOps /\ release_reservation(reserved_token)
    \/ TickHours

SpecCreate == InitSeq /\ [][NextCreate]_vars

----------------------------------------------------------------------------
(* SpecInbound: calls and messages while confirmations are pending, with a *)
(* client_last_caller write that may raise                                  *)

\* a PENDING row of the confirmation sheet after create_confirmation
SentRow(pending_id, name, mail, phone, proxy, otp) ==
    [PendingRow(pending_id, name, mail, phone, Iso(0)) EXCEPT
        !.proxy_number = proxy, !.otp = otp, !.status = "PENDING"]

OtpSent == <<"1","2","3","4","5","6">>

\* ProxyA belongs to Bob since his confirmation P5; ProxyB is reserved for
\* the confirmation of Alice
PoolInboundInit ==
    << AssignedRow(ProxyA, "P5", "1", "Bob"),
       [PoolRow(ProxyB, "mobile") EXCEPT !.status = "reserved", !.reserved_token = "P1",
                                         !.reserved_at = Iso(0),
                                         !.attribution_to_client_name = "Alice"] >>

\* the confirmation of Alice on ProxyB, and three confirmations that got
\* ProxyA before their reservation was released and the number went to Bob
\* by P5, one of them an earlier request of Bob himself: neither the release
\* nor the expiry of a reservation touches the pending row
PendingInboundInit ==
    << [SentRow("P5", "Bob", "bob@x.fr", PhoneBob, ProxyA, OtpSent) EXCEPT
            !.status = "UPDATED", !.verified_at = Iso(0)],
       SentRow("P1", "Alice", "alice@x.fr", PhoneAlice, ProxyB, OtpSent),
       SentRow("P3", "Carol", "carol@x.fr", PhoneUS, ProxyA, OtpSent),
       SentRow("P4", "Dave", "dave@x.fr", PhoneX, ProxyA, OtpSent),
       SentRow("P2", "Bob", "bob@x.fr", PhoneBob, ProxyA, OtpSent) >>

ClientsInboundInit ==
    << FormulaRow,
       ClientRow("1", "Bob", "bob@x.fr", PhoneBob, ProxyA, <<"+","3","3">>, <<>>) >>

InitInbound ==
    /\ pool = PoolInboundInit
    /\ pending = PendingInboundInit
    /\ clients = ClientsInboundInit
    /\ now = 0
    /\ last = NoRequest
    /\ ops = 0
    /\ pc = [p \in Procs |-> "idle"]
    /\ loc = [p \in Procs |-> IdleLoc]
    /\ uuids = [p \in Procs |-> 0]
    /\ released = {}

\* the third-party branch of _route_sms is reached and
\* update_last_caller_by_proxy finds the row whose cell it writes
last_caller_written(proxy_e164, sender_e164) ==
    /\ find_pending_by_proxy_and_phone(pending, proxy_e164, sender_e164) = 0
    /\ route_sms(clients, proxy_e164, sender_e164).ret = "connect"
    /\ update_last_caller_by_proxy(clients, proxy_e164, <<"?">>) # clients

\* _route_sms, part 2, under _with_error_handling, with the outcome of the
\* client_last_caller write: a write that raises ends the handler with
\* "Service SMS temporairement indisponible." before anything is relayed
route_sms_guarded(values, proxy_e164, sender_e164, write_ok) ==
    IF /\ ~write_ok
       /\ route_sms(values, proxy_e164, sender_e164).ret = "connect"
       /\ update_last_caller_by_proxy(values, proxy_e164, <<"?">>) # values
    THEN [ret |-> "unavailable", to |-> <<>>, values |-> values]
    ELSE route_sms(values, proxy_e164, sender_e164)

\* POST /twilio/sms where sheet.update_cell of update_last_caller_by_proxy
\* raises unless write_ok: _route_sms has no except around the call, the
\* exception ends in _with_error_handling before _relay_sms is reached
incoming_sms(proxy_number, sender_number, body, write_ok) ==
    \E proxy_e164 \in {plus_prefixed(e164(proxy_number))},
       sender_e164 \in {plus_prefixed(e164(sender_number))} :
       IF write_ok \/ ~last_caller_written(proxy_e164, sender_e164)
       THEN handle_incoming_sms(proxy_number, sender_number, body)
       ELSE /\ ops < MaxSeqOps
            /\ ops' = ops + 1
            /\ last' = [Request("sms") EXCEPT !.proxy = proxy_e164, !.origin = sender_e164,
                                             !.body = body, !.ret = "unavailable",
                                             !.error = "update_cell"]
            /\ UNCHANGED <<pool, pending, clients, now, pc, loc, uuids, released>>

\* the events of SpecInbound, as <<proxy, origin>>
InboundEvents ==
    { <<ProxyA, PhoneBob>>, <<ProxyA, PhoneX>>, <<ProxyA, PhoneDE>>, <<ProxyA, PhoneUS>>,
      <<ProxyB, PhoneAlice>>, <<ProxyB, PhoneX>>, <<ProxyU, PhoneX>> }
InboundBodies == { OtpSent, <<"o","k">> }

NextInbound ==
    \/ \E ev \in InboundEvents, write_ok \in BOOLEAN :
          incoming_call(ev[1], ev[2], write_ok)
    \/ \E ev \in InboundEvents, body \in InboundBodies, write_ok \in BOOLEAN :
          incoming_sms(ev[1], ev[2], body, write_ok)

SpecInbound == InitInbound /\ [][NextInbound]_vars

----------------------------------------------------------------------------
(* SpecFill: TwilioClient.fill_pool, each purchase and each save with its *)
(* outcome                                                                  *)

\* fill_pool calls in one behaviour of SpecFill, and the largest batch_size
MaxFillOps == 2
MaxBatch == 2

\* stored_type: "national" is stored as "local", anything but mobile and
\* local as "mobile"
stored_type(number_type) ==
    LET requested == IF number_type = "" THEN "mobile" ELSE number_type
        stored == IF requested = "national" THEN "local" ELSE requested
    IN  IF stored \in {"mobile", "local"} THEN stored ELSE "mobile"

\* qty = max(1, int(batch_size or 1))
qty(batch_size) == IF batch_size < 1 THEN 1 ELSE batch_size

\* the k-th number the account buys: Twilio sells a number once
TwilioNumber(k) == <<"+","3","3","9","0","0","0","0","0","0","1">> \o <<ToString(k)>>

\* what one turn of the loop of _fill_pool meets:
\*   "saved"    _purchase_number returns the number and append_row succeeds
\*   "unsaved"  _purchase_number returns the number and save_number fails
\*              (append_row raises, or the number is refused): save_number
\*              logs and returns None
\*   "refused"  _purchase_number raises RuntimeError: no candidate could be
\*              bought
\*   "raised"   _purchase_number re-raises a TwilioRestException or another
\*              exception of incoming_phone_numbers.create
PurchaseOutcomes == {"saved", "unsaved", "refused", "raised"}

\* save_number: one row appended, status available, no reservation
save_number(values, phone_number, number_type, saved) ==
    IF saved THEN Append(values, PoolRow(phone_number, number_type)) ELSE values

\* except RuntimeError: continue
fill_catches(outcome) == outcome = "refused"

\* the loop `for idx in range(qty)` from turn i on: the pool sheet, the
\* numbers bought at Twilio, the list added, and whether an exception left
\* the loop
RECURSIVE fill_loop(_, _, _, _, _, _)
fill_loop(values, bought, added, number_type, outcomes, i) ==
    IF i > Len(outcomes)
    THEN [values |-> values, bought |-> bought, added |-> added, raised |-> FALSE]
    ELSE IF outcomes[i] \in {"refused", "raised"}
    THEN IF fill_catches(outcomes[i])
         THEN fill_loop(values, bought, added, number_type, outcomes, i + 1)
         ELSE [values |-> values, bought |-> bought, added |-> added, raised |-> TRUE]
    ELSE LET purchased == TwilioNumber(Len(bought))
         IN  fill_loop(save_number(values, purchased, stored_type(number_type),
                                   outcomes[i] = "saved"),
                       Append(bought, purchased), Append(added, purchased),
                       number_type, outcomes, i + 1)

\* TwilioClient.fill_pool(country, batch_size, number_type): the list it
\* returns is last.added, empty when an exception ended the call
fill_pool(batch_size, number_type, outcomes) ==
    /\ ops < MaxFillOps
    /\ Len(outcomes) = qty(batch_size)
    /\ ops' = ops + 1
    /\ \E run \in {fill_loop(pool, last.bought, <<>>, number_type, outcomes, 1)} :
          /\ pool' = run.values
          /\ last' = [Request("fill") EXCEPT
                         !.count = batch_size, !.number_type = number_type,
                         !.outcomes = outcomes, !.bought = run.bought,
                         !.ret = IF run.raised THEN "error" ELSE "ok",
                         !.added = IF run.raised THEN <<>> ELSE run.added]
    /\ UNCHANGED <<pending, clients, now, pc, loc, uuids, released>>

FillTypes == {"national"}

OutcomeLists == UNION {[1..n -> PurchaseOutcomes] : n \in 1..MaxBatch}

InitFill ==
    /\ pool = PoolInit
    /\ pending = <<>>
    /\ clients = << FormulaRow >>
    /\ now = 0
    /\ last = NoRequest
    /\ ops = 0
    /\ pc = [p \in Procs |-> "idle"]
    /\ loc = [p \in Procs |-> IdleLoc]
    /\ uuids = [p \in Procs |-> 0]
    /\ released = {}

NextFill ==
    \E batch_size \in 0..MaxBatch, number_type \in FillTypes, outcomes \in OutcomeLists :
        fill_pool(batch_size, number_type, outcomes)

SpecFill == InitFill /\ [][NextFill]_vars

----------------------------------------------------------------------------
(* SpecSweep: creations and expiry sweeps, with a release whose sheet read *)
(* may raise                                                                *)

\* release_reservation_by_token whose get_all_values raises unless read_ok:
\* the except logs and returns 0
release_reservation_guarded(values, reserved_token, read_ok) ==
    IF read_ok THEN release_reservation_by_token(values, reserved_token)
    ELSE [count |-> 0, values |-> values]

\* the releases of expire_pending, one per expired row with a pending_id, in
\* sheet order; release_ok holds the pending ids whose release reads the pool
RECURSIVE release_expired_guarded(_, _, _, _, _)
release_expired_guarded(values, rows, expired, release_ok, i) ==
    IF i > Len(rows) THEN [count |-> 0, values |-> values]
    ELSE IF (i + 1) \in expired /\ rows[i].pending_id # ""
    THEN LET one == release_reservation_guarded(values, rows[i].pending_id,
                                                rows[i].pending_id \in release_ok)
             rest == release_expired_guarded(one.values, rows, expired, release_ok, i + 1)
         IN  [count |-> one.count + rest.count, values |-> rest.values]
    ELSE release_expired_guarded(values, rows, expired, release_ok, i + 1)

\* POST /expire: expire_pending(hours), with the outcome of each status
\* write (write_ok) and of each release (release_ok)
expire_sweep(hours, write_ok, release_ok) ==
    /\ ops < MaxSeqOps
    /\ ops' = ops + 1
    /\ \E swept \in {expire_older_than(pending, hours, now, write_ok)} :
       \E freed \in {release_expired_guarded(pool, pending, swept.expired, release_ok, 1)} :
          /\ pending' = swept.values
          /\ pool' = freed.values
          /\ last' = [Request("expire") EXCEPT !.hours = hours, !.ret = "ok",
                                               !.expired = swept.expired,
                                               !.count = freed.count]
    /\ UNCHANGED <<clients, now, pc, loc, uuids, released>>

NextSweep ==
    \/ \E pending_id \in SeqPendingIds, otp \in {OtpSent} :
          create_confirmation(pending_id, "mobile", otp)
    \/ \E hours \in ExpireHours, write_ok \in SUBSET RowIndexes(pending),
          release_ok \in SUBSET SeqPendingIds :
          expire_sweep(hours, write_ok, release_ok)
    \/ TickHours

SpecSweep == InitSeq /\ [][NextSweep]_vars

----------------------------------------------------------------------------
(* SpecContend: concurrent Reserve calls only, the callers free to take
   their time between two sheet calls *)

\* a pause longer than the staleness threshold
StallStep == stale_after_minutes + 1

\* a caller (or the sheet API) pauses: datetime.utcnow() moves past the
\* threshold of _is_stale_reserved
Stall ==
    /\ now + StallStep <= 2 * (max_tries - 1) * StallStep
    /\ now' = now + StallStep
    /\ UNCHANGED <<pending, clients, last, pool, pc, loc, uuids, ops, released>>

NextContend ==
    \/ \E p \in Procs : StartAssign(p)
    \/ \E p \in Procs : StartReservePending(p)
    \/ \E p \in Procs : Scan(p)
    \/ \E p \in Procs : WriteStatus(p)
    \/ \E p \in Procs : WriteAttr(p)
    \/ \E p \in Procs : WriteTrace(p)
    \/ \E p \in Procs : Verify(p)
    \/ \E p \in Procs : FinalizeCheck(p)
    \/ \E p \in Procs : FinalizeStatus(p)
    \/ \E p \in Procs : FinalizeAttr(p)
    \/ \E p \in Procs : FinalizeTrace(p)
    \/ Stall

SpecContend == Init /\ [][NextContend]_vars /\ \A p \in Procs : WF_vars(Proceed(p))

----------------------------------------------------------------------------
(* Claims about the pool operations (Spec) *)

\* p was returned a reservation by Reserve and has not been told it lost it
HasReservation(p) ==
    \/ pc[p] \in {"fin_check", "fin_status", "fin_attr", "fin_trace"}
    \/ pc[p] = "done" /\ loc[p].result \in {"reserved", "phone"}

\* ... and nobody released its token, and it is not old enough to be reclaimed
LiveReservation(p) ==
    /\ HasReservation(p)
    /\ loc[p].token \notin released
    /\ ~(loc[p].now < now - stale_after_minutes)

\* C1: under every interleaving of concurrent Reserve calls, no pool row is returned
\* as a successful reservation to two different callers while both reservations are
\* live (neither released nor stale): of two calls racing on one row exactly one
\* passes the token re-read.
C1_Uniqueness ==
    \A p, q \in Procs :
        (p # q /\ LiveReservation(p) /\ LiveReservation(q))
            => loc[p].row_index # loc[q].row_index

\* C2: assign_number_from_pool (Reserve, then Finalize with the token obtained) never
\* returns the same phone number to two different clients.
C2_AssignUnique ==
    \A p, q \in Procs :
        (/\ p # q
         /\ pc[p] = "done" /\ loc[p].op = "assign" /\ loc[p].result = "phone"
         /\ pc[q] = "done" /\ loc[q].op = "assign" /\ loc[q].result = "phone")
            => loc[p].phone # loc[q].phone

Reservable(row, t) ==
    /\ row.country_iso = "FR"
    /\ row.number_type = "mobile"
    /\ \/ row.status = "available"
       \/ /\ row.status = "reserved"
          /\ (row.reserved_at = NoTime \/ row.reserved_at[1] < t - stale_after_minutes)

----------------------------------------------------------------------------
(* Claims about the confirmation workflow (SpecSeq) *)

\* some reserved row carries the token
Held(values, token) ==
    \E i \in 1..Len(values) :
        values[i].status = "reserved" /\ values[i].reserved_token = token

\* C5: Release is idempotent.  A Release of a token that no reserved row
\* holds (the empty token included) returns 0 and changes no row, and a
\* Release of the token the previous request released returns 0 and leaves
\* the pool as that first Release left it.
C5_ReleaseIdempotent ==
    [][(ops' # ops /\ last'.op = "release") =>
          /\ (last'.token = "" \/ ~Held(pool, last'.token))
                => (last'.count = 0 /\ pool' = pool)
          /\ (last.op = "release" /\ last.token = last'.token)
                => (last'.count = 0 /\ pool' = pool)]_vars

\* a second Release of a token whose first Release freed a row
C5_Witness ==
    /\ last.op = "release" /\ last.prev_op = "release"
    /\ last.token = last.prev_token /\ last.token # ""
    /\ last.prev_count >= 1 /\ last.count = 0

\* the rows a correct code from the right phone to the right proxy verifies
OtpRows(proxy, origin, body) ==
    {i \in 1..Len(pending) :
        /\ pending[i].status = "PENDING"
        /\ pending[i].proxy_number = proxy
        /\ pending[i].client_real_phone = origin
        /\ pending[i].otp # <<>>
        /\ pending[i].otp = body}

\* C6: OTP round trip.  After a successful create, a message from the
\* client's real phone to the reserved proxy whose body is exactly the
\* stored otp ends with the pending row PROMOTED or UPDATED, a client
\* carrying the proxy, and the pool row of the proxy assigned.
C6_OtpRoundTrip ==
    [][(ops' # ops /\ last'.op = "sms") =>
          \A i \in OtpRows(last'.proxy, last'.origin, last'.body) :
              /\ pending'[i].status \in {"PROMOTED", "UPDATED"}
              /\ \E c \in 1..Len(clients') :
                    clients'[c].client_proxy_number = pending[i].proxy_number
              /\ \E r \in 1..Len(pool') :
                    /\ pool'[r].phone_number = pending[i].proxy_number
                    /\ pool'[r].status = "assigned"]_vars

\* the exact code was sent and the handler ended with the exception
C6_Witness ==
    /\ last.op = "sms" /\ last.ret = "unavailable"
    /\ \E i \in 1..Len(pending) :
          /\ pending[i].pending_id = last.pending_id
          /\ pending[i].otp = last.body
          /\ pending[i].status = "VERIFIED"

\* the PENDING rows the message is an OTP answer to, with a code other than
\* the stored one
WrongCodeRows(proxy, origin, body) ==
    {i \in 1..Len(pending) :
        /\ pending[i].status = "PENDING"
        /\ pending[i].proxy_number = proxy
        /\ pending[i].client_real_phone = origin
        /\ pending[i].otp # <<>>
        /\ extract_otp(body) # pending[i].otp}

\* C7: a message that answers a PENDING row with a code different from the
\* stored otp is answered "invalid code" and changes nothing: not the pending
\* rows (status, otp, proxy), not the clients, not the pool.
C7_WrongCodeNoChange ==
    [][(ops' # ops /\ last'.op = "sms"
        /\ WrongCodeRows(last'.proxy, last'.origin, last'.body) # {})
          => /\ last'.ret = "invalid_code"
             /\ pending' = pending /\ clients' = clients /\ pool' = pool]_vars

\* a wrong six-digit code was refused and the row is still PENDING and reserved
C7_Witness ==
    /\ last.op = "sms" /\ last.ret = "invalid_code" /\ last.body \in OtpCodes
    /\ \E i \in 1..Len(pending) :
          /\ pending[i].pending_id = last.pending_id
          /\ pending[i].status = "PENDING"
          /\ pending[i].otp # last.body
          /\ Held(pool, pending[i].pending_id)

----------------------------------------------------------------------------
(* Claims about routing (SpecRoute) *)

\* the event is a call or a message that reached the routing steps
RoutingStep == ops' # ops /\ last'.op \in {"call", "sms"} /\ last'.pending_id = ""

\* the rows of the clients that own the proxy
Owners(proxy) ==
    {c \in 1..Len(clients) : clients[c].client_proxy_number = proxy}

Allowed(origin) ==
    \E code \in EU_COUNTRY_CODES :
        startswith(SubSeq(origin, 1, IF Len(origin) < 3 THEN Len(origin) ELSE 3), code)

----------------------------------------------------------------------------
(* Claims about the pool rows between and after the cell writes *)

\* C14: in every reachable state of the pool, the states between the cell
\* writes of Reserve, Release and Finalize included, a row whose status is
\* reserved has a reserved_token that is not empty.
C14_ReservedHasToken ==
    \A i \in 1..Len(pool) :
        pool[i].status = "reserved" => pool[i].reserved_token # ""

\* a Reserve has written the status of an available row and not yet I:K
C14_Witness ==
    \E p \in Procs :
        /\ pc[p] \in {"w_attr", "w_trace"}
        /\ loc[p].status = "available"
        /\ RowAt(pool, loc[p].row_index).status = "reserved"
        /\ RowAt(pool, loc[p].row_index).reserved_token = ""

\* p is inside Reserve: between its first get_all_values and its return
InReserve(p) == pc[p] \in {"scan", "w_status", "w_attr", "w_trace", "verify"}

\* C17: Reserve always terminates.  It reads the sheet for at most max_tries
\* attempts; once the attempts are used up it returns the exhaustion outcome
\* (None) without another read; and every Reserve that has started returns.
C17_ReserveTerminates ==
    /\ [][\A p \in Procs :
            /\ loc'[p].attempt <= max_tries
            /\ (pc[p] = "scan" /\ pc'[p] = "w_status") => loc[p].attempt < max_tries
            /\ (pc[p] = "scan" /\ loc[p].attempt >= max_tries /\ pc'[p] # "scan")
                  => (pc'[p] = "done" /\ loc'[p].result = "exhausted" /\ pool' = pool)]_vars
    /\ \A p \in Procs : InReserve(p) ~> ~InReserve(p)

\* a Reserve returned the exhaustion outcome after max_tries attempts
C17_Witness ==
    \E p \in Procs :
        /\ pc[p] = "done" /\ loc[p].result = "exhausted"
        /\ loc[p].attempt = max_tries

----------------------------------------------------------------------------
(* Claims about the fallback of create_confirmation (SpecSeq) *)

OtherType(number_type) == IF number_type = "mobile" THEN "local" ELSE "mobile"

\* C20: CreatePending falls back to the other number type.  Whenever Reserve
\* finds no row of the requested type and would find one of the other type
\* (an available row, or a stale reservation), the create obtains a number
\* of the other type; it reports exhaustion only when both types fail.
C20_FallbackOtherType ==
    [][(ops' # ops /\ last'.op = "create") =>
          LET requested == last'.number_type
              other == OtherType(requested)
          IN  (/\ FirstCandidate(pool, "FR", requested, now) = 0
               /\ FirstCandidate(pool, "FR", other, now) # 0)
                  => /\ last'.ret # "exhausted"
                     /\ \E i \in 1..Len(pool') :
                           /\ pool'[i].phone_number = last'.proxy
                           /\ pool'[i].number_type = other
                           /\ pool'[i].reserved_token = last'.pending_id]_vars

\* a create reported exhaustion while the only row of the other type was a
\* stale reservation
C20_Witness ==
    /\ last.op = "create" /\ last.ret = "exhausted"
    /\ FirstCandidate(pool, "FR", last.number_type, now) = 0
    /\ \E i \in 1..Len(pool) :
          /\ pool[i].number_type = OtherType(last.number_type)
          /\ is_stale_reserved(pool[i].status, pool[i].reserved_at, now)

----------------------------------------------------------------------------
(* Claims about the pool operations run alone (SpecWrites) *)

\* C15: in every reachable state of the pool, a row whose status is assigned
\* has an attribution_to_client_name and a date_attribution that are not
\* empty, whichever operation assigned it (finalize_assignment_keep_friendly,
\* mark_assigned_reserved, mark_assigned) and whatever name it was given.
C15_AssignedHasNameAndDate ==
    \A i \in 1..Len(pool) :
        pool[i].status = "assigned"
            => (pool[i].attribution_to_client_name # "" /\ pool[i].date_attribution # NoTime)

\* a Finalize given the empty name returned True
C15_Witness ==
    /\ last.op = "finalize" /\ last.ret = "ok" /\ last.fail = 0 /\ last.name = ""
    /\ RowAt(pool, last.row).status = "assigned"
    /\ RowAt(pool, last.row).attribution_to_client_name = ""

\* C16: the status of a pool row changes only from available to reserved
\* (by a Reserve), from reserved to assigned (by a Finalize) and from
\* reserved to available (by a Release); no operation takes a row from
\* available to assigned, and none changes the status of an assigned row.
C16_Lifecycle ==
    [][\A i \in 1..Len(pool) :
          pool'[i].status # pool[i].status =>
             \/ /\ pool[i].status = "available" /\ pool'[i].status = "reserved"
                /\ last'.op \in {"assign", "reserve_pending"}
             \/ /\ pool[i].status = "reserved" /\ pool'[i].status = "assigned"
                /\ last'.op = "finalize"
             \/ /\ pool[i].status = "reserved" /\ pool'[i].status = "available"
                /\ last'.op = "release"]_vars

\* the first operation on the pool was a mark_assigned, every write of it
\* succeeded, and the row of the phone, never reserved, is assigned
C16_Witness ==
    /\ last.op = "mark_assigned" /\ last.prev_op = "none" /\ last.fail = 0
    /\ \E i \in 1..Len(pool) :
          /\ strip(numericise(pool[i].phone_number)) = last.proxy
          /\ pool[i].status = "assigned"
          /\ pool[i].reserved_token = ""

\* C19: a sheet.update that raises inside Reserve, Finalize or Release never
\* leaves a row whose status is already the new one while the other cells
\* of the update still hold the old values: the status is written last.
C19_StatusWrittenLast ==
    [][(ops' # ops /\ last'.op \in {"assign", "reserve_pending", "finalize", "release"}) =>
          \A i \in 1..Len(pool) :
             pool'[i].status # pool[i].status =>
                /\ pool'[i].status = "reserved"
                      => (pool'[i].reserved_token = last'.token
                          /\ pool'[i].reserved_at # NoTime)
                /\ pool'[i].status = "assigned"
                      => (pool'[i].date_attribution # NoTime
                          /\ pool'[i].reserved_by_client_id # "")
                /\ pool'[i].status = "available"
                      => (pool'[i].reserved_token = "" /\ pool'[i].reserved_at = NoTime
                          /\ pool'[i].attribution_to_client_name = "")]_vars

\* the second sheet.update of a Reserve raised: the row it had taken is
\* reserved without a token, and the Reserve returned another row
C19_Witness ==
    /\ last.op \in {"assign", "reserve_pending"} /\ last.fail = 2
    /\ last.ret = "reserved"
    /\ \E i \in 1..Len(pool) :
          /\ i + 1 # last.row
          /\ pool[i].status = "reserved"
          /\ pool[i].reserved_token = ""
          /\ pool[i].reserved_at = NoTime

----------------------------------------------------------------------------
(* Claims about the writers of the Clients sheet (SpecClients) *)

\* a step of ClientsRepository.update, called directly or by update_client
UpdateStep == ops' # ops /\ last'.op \in {"update", "update_client"} /\ last'.error = ""

\* the cell <<sheet row, column>> holds after the step a value it did not
\* hold before (a cell of a row the step appends held nothing)
CellChanged(cell) ==
    \/ cell[1] - 1 > Len(clients)
    \/ clients'[cell[1] - 1][ClientHeaders[cell[2]]] # clients[cell[1] - 1][ClientHeaders[cell[2]]]

\* the cell is one update may write: in a data row, which carries the id of
\* the client, before the first protected column, with a value that changes
WritableCell(cell) ==
    /\ cell[1] >= DATA_START_ROW
    /\ cell[1] - 1 <= Len(clients')
    /\ clients'[cell[1] - 1].client_id = last'.id
    /\ cell[2] < first_protected_col
    /\ CellChanged(cell)

LastCallerKept ==
    \A i \in 1..Len(clients) : clients'[i].client_last_caller = clients[i].client_last_caller

ClientStep == ops' # ops /\ last'.op \in {"upsert", "update_client", "update_last_caller"}

\* C12: a client_proxy_number that is set is never changed to another number
\* by the upsert of VerifyOtp, by a contact-detail update or by routing
C12_ProxyImmutable ==
    [][ClientStep =>
          \A i \in 1..Len(clients) :
              proxy_norm(clients[i].client_proxy_number) # <<>>
                  => proxy_norm(clients'[i].client_proxy_number)
                        = proxy_norm(clients[i].client_proxy_number)]_vars

\* Bob, who held the second number, holds the first after the upsert of his
\* pending row
C12_Witness ==
    /\ last.op = "upsert"
    /\ last.ret = "updated"
    /\ last.id = "1"
    /\ \E i \in 1..Len(clients) :
          /\ clients[i].client_id = "1"
          /\ ClientsRepoInit[i].client_proxy_number = ProxyB
          /\ clients[i].client_proxy_number = ProxyA

----------------------------------------------------------------------------
(* Claims about concurrent promotions (SpecPromote) *)

\* the data rows of the Clients sheet carry pairwise different client ids
UniqueClientIds ==
    \A i, j \in 1..Len(clients) :
        (i # j /\ i + 1 >= DATA_START_ROW /\ j + 1 >= DATA_START_ROW)
            => clients[i].client_id # clients[j].client_id

\* C13: a client the confirmation workflow creates gets the greatest
\* client_id of the sheet plus one, and after any interleaving of concurrent
\* promotions no two client rows carry the same client_id
C13_NewIdUnique ==
    /\ [][(last'.ret = "created" /\ Len(clients') = Len(clients) + 1)
             => int(clients'[Len(clients')].client_id) = get_max_client_id(clients) + 1]_vars
    /\ []UniqueClientIds

\* two promotions have each created a client, Carol and Dave, under one id
C13_Witness ==
    \E i, j \in 1..Len(clients) :
        /\ clients[i].client_name = "Carol"
        /\ clients[j].client_name = "Dave"
        /\ clients[i].client_id = clients[j].client_id

----------------------------------------------------------------------------
(* Claims about a finalization that meets another token (SpecSeq) *)

\* the pool row of the proxy of pending row i does not carry the row's
\* pending_id as its reserved_token: it was released or reserved anew
TokenMismatch(i) ==
    \E r \in 1..Len(pool) :
        /\ pool[r].phone_number = pending[i].proxy_number
        /\ pool[r].reserved_token # pending[i].pending_id

\* C11: when the OTP of a pending row is verified and the pool row of its
\* proxy carries another token, the attempt fails with the token conflict
\* and the pending row is set neither to PROMOTED nor to UPDATED
C11_MismatchConflict ==
    [][(ops' # ops /\ last'.op = "sms") =>
          \A i \in OtpRows(last'.proxy, last'.origin, last'.body) :
              (pending[i].pending_id = last'.pending_id /\ TokenMismatch(i))
                  => /\ last'.error = "reserved_token mismatch"
                     /\ pending'[i].status \notin {"PROMOTED", "UPDATED"}]_vars

\* the exact code was sent for a pending row whose number another pending
\* row had reserved since, and the handler ended with an exception
C11_Witness ==
    /\ last.op = "sms" /\ last.ret = "unavailable"
    /\ \E i \in 1..Len(pending) :
          /\ pending[i].pending_id = last.pending_id
          /\ pending[i].otp = last.body
          /\ pending[i].status = "VERIFIED"
          /\ \E r \in 1..Len(pool) :
                /\ pool[r].phone_number = pending[i].proxy_number
                /\ pool[r].reserved_token \notin {"", pending[i].pending_id}

----------------------------------------------------------------------------
(* Claims about the client the upsert picks (SpecClients) *)

\* the client rows whose mail is the mail of the pending row pd
EmailRows(pd) ==
    {i \in 1..Len(clients) : clients[i].client_mail # "" /\ clients[i].client_mail = pd.client_mail}

\* C30: the upsert of a verified pending row picks the client by mail first:
\* when a client row carries the mail of the pending row, the client updated
\* is one of those rows, whatever the order of the rows
C30_EmailFirst ==
    [][(ops' # ops /\ last'.op = "upsert") =>
          \A pd \in UpsertPendings :
              (pd.pending_id = last'.pending_id /\ EmailRows(pd) # {})
                  => \E i \in EmailRows(pd) : clients[i].client_id = last'.id]_vars

\* the pending row gave Alice's mail and Bob's phone, Bob's row stands
\* before Alice's, and the upsert updated Bob
C30_Witness ==
    /\ last.op = "upsert" /\ last.ret = "updated"
    /\ last.pending_id = "P5"
    /\ last.id = "1"
    /\ \E i, j \in 1..Len(clients) :
          /\ i < j
          /\ clients[i].client_id = "1"
          /\ clients[j].client_id = "2" /\ clients[j].client_mail = "alice@x.fr"

----------------------------------------------------------------------------
(* Claims about POST /confirmations/create (SpecCreate) *)

\* the well-formed payloads whose pending_id no row of the pending table
\* carries
UnknownIdPayloads ==
    {payload \in ValidPayloads :
        \A i \in 1..Len(pending) : pending[i].pending_id # text(strip(payload.pending_id))}

\* a step of create_confirmation
CreateStep == ops' # ops /\ last'.op = "create"

\* no row of the pending table is added or changed, and no OTP message leaves
NothingStored == pending' = pending /\ last'.to = <<>> /\ last'.body = <<>>

\* C21 as stated: a create for a pending_id without a row fails with the
\* unknown-pending_id error, no pending row is created or changed, no otp or
\* proxy is stored, no OTP message is sent
C21_UnknownPendingId ==
    [][(CreateStep /\ last'.payload \in UnknownIdPayloads)
              => last'.ret = "unknown_pending" /\ NothingStored]_vars

\* C21 amended: a create for a pending_id without a row fails, with the
\* unknown-pending_id error once a number has been reserved for it (the pool
\* row stays reserved under that pending_id) and with the no-number error
\* when none could be reserved; no pending row is created or changed, no otp
\* or proxy is stored, no OTP message is sent
C21_UnknownPendingIdAmended ==
    [][(CreateStep /\ last'.payload \in UnknownIdPayloads)
              => /\ NothingStored
                 /\ \/ /\ last'.ret = "unknown_pending"
                       /\ \E r \in 1..Len(pool') :
                             /\ pool'[r].status = "reserved"
                             /\ pool'[r].reserved_token = last'.pending_id
                             /\ pool'[r].phone_number = last'.proxy
                    \/ /\ last'.ret = "exhausted"
                       /\ pool' = pool]_vars

\* a create for P9, which no row carries, has failed with the
\* unknown-pending_id error after reserving a number
C21_Witness ==
    /\ last.op = "create" /\ last.ret = "unknown_pending"
    /\ last.pending_id = "P9"
    /\ \A i \in 1..Len(pending) : pending[i].pending_id # "P9"
    /\ \E r \in 1..Len(pool) : pool[r].reserved_token = "P9" /\ pool[r].status = "reserved"

\* C22: a pending row carries a proxy_number only once a pool reservation
\* for its pending_id has succeeded, and carries an otp exactly when it
\* carries a proxy_number
C22_ProxyWithOtp ==
    /\ [][\A i \in 1..Len(pending) :
              (pending'[i].proxy_number # pending[i].proxy_number
               /\ pending'[i].proxy_number # <<>>)
                  => \E r \in 1..Len(pool') :
                        /\ pool'[r].phone_number = pending'[i].proxy_number
                        /\ pool'[r].status = "reserved"
                        /\ pool'[r].reserved_token = pending[i].pending_id]_vars
    /\ [](\A i \in 1..Len(pending) :
              (pending[i].otp # <<>>) <=> (pending[i].proxy_number # <<>>))

\* the update_cell of the otp raised after the proxy_number was written
C22_Witness ==
    /\ last.op = "create" /\ last.ret = "write_failed" /\ last.fail = 2
    /\ \E i \in 1..Len(pending) :
          /\ pending[i].pending_id = last.pending_id
          /\ pending[i].proxy_number # <<>>
          /\ pending[i].otp = <<>>

\* C23: a create with an empty pending_id or a malformed name, mail, phone,
\* country or number type is rejected and writes to no sheet
C23_RejectedBeforeStorage ==
    [][(CreateStep /\ last'.payload \in MalformedPayloads)
              => /\ last'.ret \in {"validation", "internal"}
                 /\ pool' = pool /\ pending' = pending /\ clients' = clients
                 /\ last'.to = <<>>]_vars

\* a create was refused for its number type while a number was available
C23_Witness ==
    /\ last.op = "create" /\ last.ret = "validation" /\ last.error = "number_type"
    /\ list_available(pool, "FR", "mobile") # {}

----------------------------------------------------------------------------
(* Claims about inbound calls and messages (SpecInbound) *)

SmsStep == ops' # ops /\ last'.op = "sms"

CallStep == ops' # ops /\ last'.op = "call"

\* a PENDING row of the confirmation sheet carries the proxy and the origin
PendingMatch(proxy, origin) ==
    \E i \in 1..Len(pending) :
        /\ pending[i].status = "PENDING"
        /\ pending[i].proxy_number = proxy
        /\ pending[i].client_real_phone = origin

\* the answers of the CONFIRMATION_PENDING branch of _route_sms
OtpOutcomes == {"otp_missing", "invalid_code", "promoted", "updated", "unavailable"}

\* C24: a message whose (proxy, origin) matches a PENDING row is handled by
\* the OTP verification alone, whoever owns the proxy, wherever the origin
\* is and whatever the code: the answer is one of the verification, nothing
\* is relayed, and no client_last_caller changes
C24_PendingFirst ==
    [][(SmsStep /\ PendingMatch(last'.proxy, last'.origin)) =>
          /\ last'.ret \in OtpOutcomes
          /\ last'.error # "update_cell"
          /\ last'.to = <<>>
          /\ last'.routed = last.routed
          /\ LastCallerKept]_vars

\* a wrong code from outside the gate's zone to the proxy of a client: the
\* pending row of the pair decided the answer
C24_Witness ==
    /\ last.op = "sms" /\ last.ret = "invalid_code"
    /\ last.proxy = ProxyA /\ last.origin = PhoneUS
    /\ \E c \in 1..Len(clients) : clients[c].client_proxy_number = ProxyA

EventStep == ops' # ops /\ last'.op \in {"call", "sms"}

\* no row of the Clients sheet carries the proxy
Unowned(proxy) == \A c \in 1..Len(clients) : clients[c].client_proxy_number # proxy

NoSheetWritten == pool' = pool /\ pending' = pending /\ clients' = clients

\* C25 as stated: a call or a message to a proxy that no client owns is
\* answered "number not recognized", writes to no sheet and relays nothing
C25_UnknownProxy ==
    [][(EventStep /\ Unowned(last'.proxy)) =>
          /\ last'.ret = "unknown_proxy"
          /\ NoSheetWritten
          /\ last'.to = <<>>]_vars

\* C25 amended: the same for a call, and for a message whose (proxy, origin)
\* matches no PENDING row
C25_UnknownProxyAmended ==
    [][(/\ EventStep
        /\ Unowned(last'.proxy)
        /\ (last'.op = "call" \/ ~PendingMatch(last'.proxy, last'.origin))) =>
          /\ last'.ret = "unknown_proxy"
          /\ NoSheetWritten
          /\ last'.to = <<>>]_vars

\* a message to the number reserved for Alice, from somebody else
C25_Witness ==
    /\ last.op = "sms" /\ last.ret = "unknown_proxy"
    /\ last.proxy = ProxyB /\ last.origin = PhoneX
    /\ PendingMatch(ProxyB, PhoneAlice)

\* the client a call or a message to the proxy is resolved to: the first row
\* of the Clients sheet that carries the proxy (0 for none)
OwnerOf(proxy) ==
    IF Unowned(proxy) THEN 0
    ELSE CHOOSE c \in 1..Len(clients) :
            /\ clients[c].client_proxy_number = proxy
            /\ \A d \in 1..(c - 1) : clients[d].client_proxy_number # proxy

\* the event comes from the real phone of the client of its proxy
SelfCallback(proxy, origin) ==
    OwnerOf(proxy) # 0 /\ clients[OwnerOf(proxy)].client_real_phone = origin

\* the answer to a self-callback: "no recent contact" without a last caller,
\* else the last caller connected, and the Clients sheet as it was
Reflected(proxy) ==
    /\ IF clients[OwnerOf(proxy)].client_last_caller = <<>>
       THEN last'.ret = "no_recent" /\ last'.to = <<>>
       ELSE last'.ret = "callback" /\ last'.to = clients[OwnerOf(proxy)].client_last_caller
    /\ clients' = clients

\* C26 as stated: every self-callback is reflected
C26_SelfCallback ==
    [][(EventStep /\ SelfCallback(last'.proxy, last'.origin)) =>
          Reflected(last'.proxy)]_vars

\* C26 amended: a self-callback that passes the gate and is a call, or a
\* message whose (proxy, origin) matches no PENDING row, is reflected; with
\* a PENDING row the message is an OTP attempt, which leaves every
\* client_last_caller as it was as well
C26_SelfCallbackAmended ==
    [][(EventStep /\ SelfCallback(last'.proxy, last'.origin)) =>
          /\ (/\ in_eu(extract_country_code(last'.origin))
              /\ (last'.op = "call" \/ ~PendingMatch(last'.proxy, last'.origin)))
                => Reflected(last'.proxy)
          /\ LastCallerKept]_vars

\* Bob answers by message to the third party whose message reached him
C26_Witness ==
    /\ last.op = "sms" /\ last.ret = "callback"
    /\ last.proxy = ProxyA /\ last.origin = PhoneBob /\ last.to = PhoneDE
    /\ \E c \in 1..Len(clients) : clients[c].client_last_caller = PhoneDE

\* C27: a third-party event that is connected or relayed to the client's
\* real phone leaves the origin in the client_last_caller of the client of
\* the proxy; none is connected while the cell holds another value
C27_PersistedBeforeConnect ==
    [][(EventStep /\ last'.ret = "connect") =>
          /\ OwnerOf(last'.proxy) # 0
          /\ last'.to = clients[OwnerOf(last'.proxy)].client_real_phone
          /\ clients'[OwnerOf(last'.proxy)].client_last_caller = last'.origin]_vars

\* a call connected to Bob with its origin in his client_last_caller
C27_Witness ==
    /\ last.op = "call" /\ last.ret = "connect" /\ last.to = PhoneBob
    /\ last.proxy = ProxyA /\ last.origin = PhoneX
    /\ \E c \in 1..Len(clients) :
          clients[c].client_proxy_number = ProxyA /\ clients[c].client_last_caller = PhoneX

\* C28: for the clients of the sheet, a proxy and an origin that match no
\* PENDING row, and either outcome of the client_last_caller write, the
\* call and the message get the same decision, the same number connected
\* and the same Clients sheet afterwards
C28_VoiceMessageSame ==
    \A ev \in InboundEvents, write_ok \in BOOLEAN :
        ~PendingMatch(ev[1], ev[2]) =>
            handle_incoming_call(clients, e164(ev[1]), e164(ev[2]), write_ok)
                = route_sms_guarded(clients, plus_prefixed(e164(ev[1])),
                                    plus_prefixed(e164(ev[2])), write_ok)

\* the two agree whenever the write succeeds
C28_SameWhenWritten ==
    \A ev \in InboundEvents :
        ~PendingMatch(ev[1], ev[2]) =>
            handle_incoming_call(clients, e164(ev[1]), e164(ev[2]), TRUE)
                = route_sms_guarded(clients, plus_prefixed(e164(ev[1])),
                                    plus_prefixed(e164(ev[2])), TRUE)

\* a third-party message that ended on the failed write, where the call of
\* the same origin to the same proxy is connected
C28_Witness ==
    /\ last.op = "sms" /\ last.ret = "unavailable" /\ last.error = "update_cell"
    /\ handle_incoming_call(clients, last.proxy, last.origin, FALSE).ret = "connect"

----------------------------------------------------------------------------
(* Claims about fill_pool (SpecFill) *)

FillStep == ops' # ops /\ last'.op = "fill"

\* the numbers the call bought at Twilio
Acquired == {last'.bought[k] : k \in (Len(last.bought) + 1)..Len(last'.bought)}

Returned == {last'.added[k] : k \in 1..Len(last'.added)}

PoolRowsOf(values, phone) == {r \in 1..Len(values) : values[r].phone_number = phone}

\* C29: fill_pool is not ended by a purchase that fails; each number it
\* bought is in the pool as exactly one row, available, and in the list it
\* returns; each number of the list is in the pool
C29_FillReported ==
    [][FillStep =>
          /\ last'.ret = "ok"
          /\ \A n \in Acquired :
                /\ Cardinality(PoolRowsOf(pool', n)) = 1
                /\ \A r \in PoolRowsOf(pool', n) : pool'[r].status = "available"
                /\ n \in Returned
          /\ \A n \in Returned : PoolRowsOf(pool', n) # {}]_vars

\* a batch of two whose first purchase found no candidate and whose second
\* was bought and saved
C29_Witness ==
    /\ last.op = "fill" /\ last.ret = "ok"
    /\ last.outcomes = <<"refused", "saved">>
    /\ Len(last.added) = 1
    /\ PoolRowsOf(pool, last.added[1]) # {}

----------------------------------------------------------------------------
(* Claims about concurrent reservations (Spec) *)

\* the Reserve of p has returned: a row, or None
ReserveEnded(p) ==
    /\ loc[p].op \in {"assign", "reserve_pending"}
    /\ HasReservation(p) \/ (pc[p] = "done" /\ loc[p].result = "exhausted")

\* the row the Reserve of p returned, 0 for None
ReserveRow(p) == IF HasReservation(p) THEN loc[p].row_index ELSE 0

\* Reserve as one conditional update at time t: the first candidate gets
\* status, token and reserved_at in one step
reserve_atomic(values, token, t) ==
    LET r == FirstCandidate(values, "FR", "mobile", t)
    IN  IF r = 0 THEN [row_index |-> 0, values |-> values]
        ELSE [row_index |-> r,
              values |-> update_IJK(update_C(values, r, "reserved"), r, token, Iso(t), "")]

\* the instants of the clock
Instants == {t \in 0..MaxNow : t % TickStep = 0}

\* the rows two atomic Reserves get from the initial pool, the first at t1
\* and the second at t2
AtomicRows(t1, t2) ==
    LET first == reserve_atomic(PoolInit, "first", t1)
    IN  <<first.row_index, reserve_atomic(first.values, "second", t2).row_index>>

\* the time of the atomic Reserve that stands for the call of p: the time
\* the call stamped its reservation with, any time for a call without one
InstantsOf(p) == IF HasReservation(p) THEN {loc[p].now} ELSE Instants

\* C31: the rows two concurrent Reserve calls return, nothing having been
\* released, are the rows the two calls get when each is one atomic
\* conditional update, in one of the two orders
C31_RefinesAtomic ==
    \A p, q \in Procs :
        (p # q /\ ReserveEnded(p) /\ ReserveEnded(q) /\ released = {}) =>
            \E first \in {p, q}, second \in {p, q} :
                /\ first # second
                /\ \E t1 \in InstantsOf(first), t2 \in InstantsOf(second) :
                      /\ t1 <= t2
                      /\ <<ReserveRow(first), ReserveRow(second)>> = AtomicRows(t1, t2)

\* two Reserve calls have returned different rows, as two atomic ones do
C31_Witness ==
    \E p, q \in Procs :
        /\ HasReservation(p) /\ HasReservation(q)
        /\ loc[p].row_index # loc[q].row_index
        /\ loc[p].row_index # 0 /\ loc[q].row_index # 0

\* the row the Release of p is resetting
ReleaseTarget(p) == RowAt(pool, Head(loc[p].rows))

\* C32: every write of Release(token) lands on a row that is still the
\* reservation of that token: reserved with the token before the status
\* write, and touched by nobody else between the three writes of the reset
C32_ReleaseOwnRowsOnly ==
    [][\A p \in Procs :
         (pc[p] \in {"rel_status", "rel_trace", "rel_attr"} /\ pc'[p] # pc[p]) =>
            /\ pc[p] = "rel_status" =>
                  /\ ReleaseTarget(p).status = "reserved"
                  /\ ReleaseTarget(p).reserved_token = loc[p].arg
            /\ pc[p] = "rel_trace" =>
                  /\ ReleaseTarget(p).status = "available"
                  /\ ReleaseTarget(p).reserved_token = loc[p].arg
            /\ pc[p] = "rel_attr" =>
                  /\ ReleaseTarget(p).status = "available"
                  /\ ReleaseTarget(p).reserved_token = ""]_vars

\* a Release has reset the row it read as reserved with its token
C32_Witness ==
    \E p \in Procs :
        /\ pc[p] = "done" /\ loc[p].op = "release" /\ loc[p].count = 1
        /\ loc[p].arg \in released

----------------------------------------------------------------------------
(* Claims about the expiry sweep (SpecSweep) *)

SweepStep == ops' # ops /\ last'.op = "expire"

\* C33: once expire_pending has returned, no pool row is reserved with the
\* pending_id of a row the sweep marked EXPIRED
C33_ExpiredReleased ==
    [][SweepStep =>
          \A r \in last'.expired :
              /\ RowAt(pending', r).status = "EXPIRED"
              /\ ~Held(pool', RowAt(pending, r).pending_id)]_vars

\* a sweep expired a pending row and released the number reserved for it
C33_Witness ==
    /\ last.op = "expire" /\ last.count = 1
    /\ \E r \in last.expired :
          /\ RowAt(pending, r).status = "EXPIRED"
          /\ \E i \in 1..Len(pool) :
                /\ pool[i].phone_number = RowAt(pending, r).proxy_number
                /\ pool[i].status = "available"

----------------------------------------------------------------------------
(* Claims about the reservation tokens (Spec) *)

\* C34: no two rows of the pool are reserved under the same token, whichever
\* path reserved them: each Reserve writes a token no other Reserve writes
C34_TokensDistinct ==
    \A i, j \in 1..Len(pool) :
        (/\ i # j
         /\ pool[i].status = "reserved" /\ pool[j].status = "reserved"
         /\ pool[i].reserved_token # "")
            => pool[i].reserved_token # pool[j].reserved_token

\* two reservations of the client path, each under its own uuid
C34_Witness ==
    /\ \A i \in 1..Len(pool) : pool[i].status = "reserved" /\ pool[i].reserved_token # ""
    /\ \E p, q \in Procs :
          /\ loc[p].op = "assign" /\ loc[q].op = "assign"
          /\ HasReservation(p) /\ HasReservation(q)
          /\ loc[p].token # loc[q].token
          /\ RowAt(pool, loc[p].row_index).reserved_token = loc[p].token
          /\ RowAt(pool, loc[q].row_index).reserved_token = loc[q].token

----------------------------------------------------------------------------
(* Claims about the dialing codes of the gate (SpecRoute) *)

\* the origin begins with a dialing code of the table: its longest such
\* prefix is its country code
DialingCodeListed(origin) == \E code \in EU_COUNTRY_CODES : startswith(origin, code)

\* C35: the gate lets an origin through exactly when its dialing code, the
\* longest prefix of the origin that the table holds, is in the allow-list:
\* two-digit and three-digit codes alike
C35_LongestPrefixGate ==
    [][(RoutingStep /\ Owners(last'.proxy) # {}) =>
          ((last'.ret = "country") <=> ~DialingCodeListed(last'.origin))]_vars

\* an origin with a two-digit code of the list went through the gate
C35_Witness ==
    /\ last.op \in {"call", "sms"} /\ last.ret = "connect"
    /\ last.origin = PhoneDE /\ DialingCodeListed(PhoneDE)

----------------------------------------------------------------------------
(* Claims about the proxies of the clients (SpecSeq, SpecInbound) *)

\* C36: no two rows of the Clients sheet carry the same proxy number
C36_ProxyOfOneClient ==
    \A c, d \in 1..Len(clients) :
        (c # d /\ clients[c].client_proxy_number # <<>>)
            => clients[c].client_proxy_number # clients[d].client_proxy_number


\* a verification created the client of ProxyB, the only one that carries it
C36_Witness ==
    /\ last.op = "sms" /\ last.pending_id = "P1" /\ last.proxy = ProxyB
    /\ last.ret \in {"promoted", "unavailable"}
    /\ Cardinality({c \in 1..Len(clients) : clients[c].client_proxy_number = ProxyB}) = 1

----------------------------------------------------------------------------
(* Claims about the number of a pending confirmation (SpecSweep) *)

\* the pool holds the number reserved with the token
ReservedFor(values, phone, token) ==
    \E r \in 1..Len(values) :
        /\ values[r].phone_number = phone
        /\ values[r].status = "reserved"
        /\ values[r].reserved_token = token

\* C37: as long as a pending row is PENDING with a proxy number, the pool
\* row of that number is reserved with the pending_id of the row for token
C37_PendingKeepsNumber ==
    \A i \in 1..Len(pending) :
        (pending[i].status = "PENDING" /\ pending[i].proxy_number # <<>>)
            => ReservedFor(pool, pending[i].proxy_number, pending[i].pending_id)

\* a creation has just reserved the number of its pending row
C37_Witness ==
    /\ last.op = "create" /\ last.ret = "ok"
    /\ \E i \in 1..Len(pending) :
          /\ pending[i].pending_id = last.pending_id
          /\ pending[i].status = "PENDING"
          /\ pending[i].proxy_number = last.proxy
          /\ ReservedFor(pool, last.proxy, last.pending_id)

----------------------------------------------------------------------------
(* Claims about contention (SpecContend) *)

\* the Reserve of p returned None
Exhausted(p) == pc[p] = "done" /\ loc[p].result = "exhausted"

\* the rows of the pool a Reserve for FR/mobile can take when nothing has started
AvailableAtStart == {r \in RowIndexes(PoolInit) : IsCandidate(RowAt(PoolInit, r), "FR", "mobile", 0)}

\* C38: liveness under contention.  With at most as many Reserve calls as
\* there were available rows (and at most max_tries of them), every call
\* that has started returns, and none returns the exhaustion outcome.
C38_ContendedReserveSucceeds ==
    /\ [](ops <= Cardinality(AvailableAtStart) /\ ops <= max_tries
            => \A p \in Procs : ~Exhausted(p))
    /\ \A p \in Procs : InReserve(p) ~> ~InReserve(p)

\* two concurrent calls that lost a re-read each and ended with two rows
C38_Witness ==
    /\ ops = 2
    /\ \A p \in Procs : HasReservation(p) /\ pc[p] = "done"
    /\ loc["p1"].row_index # loc["p2"].row_index
    /\ \E p \in Procs : loc[p].attempt > 0

----------------------------------------------------------------------------
(* Claims about reserved rows without reserved_at (Spec) *)

\* row r is a FR/mobile row with status reserved and an empty reserved_at
Unstamped(values, r) ==
    /\ RowAt(values, r).country_iso = "FR"
    /\ RowAt(values, r).number_type = "mobile"
    /\ RowAt(values, r).status = "reserved"
    /\ RowAt(values, r).reserved_at = NoTime

\* C39: a reserved row whose reserved_at is empty is reservable at once by
\* any requester: a scan that reads such a row takes it, unless a candidate
\* stands before it in the sheet, whatever the time and whoever wrote the
\* status, the Reserve that is between its status write and its I:K write
\* included.
C39_UnstampedIsReservable ==
    [][\A p \in Procs :
         (pc[p] = "scan" /\ loc[p].attempt < max_tries /\ loc'[p] # loc[p]) =>
            \A r \in RowIndexes(pool) :
                Unstamped(pool, r) =>
                   /\ pc'[p] = "w_status"
                   /\ loc'[p].row_index <= r
                   /\ loc'[p].row_index < r
                         => RowAt(pool, loc'[p].row_index).status = "available"
                            \/ Unstamped(pool, loc'[p].row_index)
                            \/ RowAt(pool, loc'[p].row_index).reserved_at[1] < now - stale_after_minutes]_vars

\* a requester took, at the instant of the status write, the row another
\* Reserve had just marked reserved and not yet stamped
C39_Witness ==
    \E p, q \in Procs :
        /\ p # q
        /\ pc[p] = "w_status"
        /\ loc[p].status = "reserved" /\ loc[p].reserved_at_existing = NoTime
        /\ loc[p].now = loc[q].now
        /\ pc[q] \in {"w_attr", "w_trace"}
        /\ loc[q].row_index = loc[p].row_index
        /\ loc[q].status = "available"

----------------------------------------------------------------------------
(* Claims about a create that fails after its reservation (SpecCreate) *)

\* the outcomes of create_confirmation that follow a successful Reserve
FailedAfterReserve == {"unknown_pending", "write_failed", "send_failed"}

\* C40: a create that fails after its Reserve succeeded undoes nothing: the
\* pool row of the number stays reserved with the pending_id for token; and a
\* reserved row changes only by a Release of its token or by the Reserve of a
\* later create that finds it stale.
C40_NoRollback ==
    [][/\ (CreateStep /\ last'.ret \in FailedAfterReserve) =>
             \E r \in RowIndexes(pool') :
                 /\ RowAt(pool', r).phone_number = last'.proxy
                 /\ RowAt(pool', r).status = "reserved"
                 /\ RowAt(pool', r).reserved_token = last'.pending_id
                 /\ RowAt(pool', r).reserved_at = Iso(now)
       /\ \A r \in RowIndexes(pool) :
             (RowAt(pool, r).status = "reserved" /\ RowAt(pool', r) # RowAt(pool, r)) =>
                 \/ /\ ops' # ops /\ last'.op = "release"
                    /\ last'.token = RowAt(pool, r).reserved_token
                    /\ RowAt(pool', r).status = "available"
                 \/ /\ CreateStep
                    /\ RowAt(pool, r).reserved_at[1] < now - stale_after_minutes
                    /\ RowAt(pool', r).status = "reserved"]_vars

\* the OTP message could not be sent: the pending row is PENDING with the
\* number and the code, and the pool row is reserved under the pending_id
C40_Witness ==
    /\ last.op = "create" /\ last.ret = "send_failed" /\ last.to = <<>>
    /\ \E i \in 1..Len(pending) :
          /\ pending[i].pending_id = last.pending_id
          /\ pending[i].status = "PENDING"
          /\ pending[i].proxy_number = last.proxy
    /\ \E r \in RowIndexes(pool) :
          /\ RowAt(pool, r).phone_number = last.proxy
          /\ RowAt(pool, r).status = "reserved"
          /\ RowAt(pool, r).reserved_token = last.pending_id

====
